---------------------------- MODULE Spec2Model ----------------------------
(***************************************************************************)
(* A model of the CoAPy message layer: the option value formats, the       *)
(* option block codec (coapy/option.py) and the Message class with its     *)
(* wire codec, validation and reply derivation (coapy/message.py).         *)
(*                                                                         *)
(* Conventions.                                                            *)
(*  - A byte string is a sequence of naturals in 0..255.                   *)
(*  - A Python value that may be None is a sequence of length 0 (None) or  *)
(*    1 (the value): None == << >>, Some(x) == <<x>>.  A code is << >>     *)
(*    (None) or the pair <<class, detail>>.                                *)
(*  - An option instance is [number, value, unrecognized]; value is the    *)
(*    unpacked value as a sequence: the bytes for the empty and opaque     *)
(*    formats, <<n>> for the integer n of the uint format, the code points *)
(*    of the text for the string format.                                   *)
(*  - The outcome of a call is [kind, exc, diag, ...]: kind "ok" (a value  *)
(*    was returned), "None" (None was returned) or "raise" (exc escaped).  *)
(*  - coapy/message.py calls encode_options(options) and                   *)
(*    decode_options(data) with one argument; coapy/option.py declares a   *)
(*    second parameter is_request.  The model passes the message's role    *)
(*    (is it a Request instance), the value message.py itself passes to    *)
(*    replace_unacceptable_options at message.py:747.                      *)
(***************************************************************************)
EXTENDS Integers, Sequences, FiniteSets, TLC

VARIABLES
    pc,        \* position in the scenario: which operation ran last
    msg,       \* the Message instance under test (NoMsg before construction)
    packed,    \* the byte buffer produced by to_packed or received from the wire
    result,    \* outcome of the last operation
    reply,     \* the message derived by create_reply (NoMsg when none)
    params,    \* the TransmissionParameters instance (NoParams before construction)
    rstate,    \* the RetransmissionState instance (NoState before construction)
    pulls,     \* the values next() has returned to the consumer of rstate, in order
    call,      \* a call of a function of coapy/option.py: its name and arguments
    ret        \* what the call returned or raised (NoRet before the call)

\* the variables of the transmission parameters and the retransmission schedule
transmission == <<params, rstate, pulls>>
\* the variables of a function call
function == <<call, ret>>

vars == <<pc, msg, packed, result, reply, params, rstate, pulls, call, ret>>

-----------------------------------------------------------------------------
(* Generic helpers *)

None == << >>
Some(x) == <<x>>

Take(s, n) == SubSeq(s, 1, IF n < Len(s) THEN n ELSE Len(s))
Drop(s, n) == SubSeq(s, (IF n < Len(s) THEN n ELSE Len(s)) + 1, Len(s))

RECURSIVE Repeat(_, _)
Repeat(b, n) == IF n <= 0 THEN << >> ELSE <<b>> \o Repeat(b, n - 1)

RECURSIVE SeqsUpTo(_, _)
SeqsUpTo(S, n) ==
    IF n <= 0 THEN { << >> }
    ELSE LET shorter == SeqsUpTo(S, n - 1)
         IN  shorter \cup { Append(s, x) : s \in { t \in shorter : Len(t) = n - 1 }, x \in S }

-----------------------------------------------------------------------------
(* Option value formats: coapy/option.py, _format_base and subclasses *)

Raise(e) == [ok |-> FALSE, exc |-> e, v |-> << >>]
Return(x) == [ok |-> TRUE, exc |-> "", v |-> x]

\* struct.pack('!Q', value): 8 octets, big-endian
RECURSIVE BigEndian(_, _)
BigEndian(value, n) ==
    IF n <= 0 THEN << >> ELSE Append(BigEndian(value \div 256, n - 1), value % 256)

\* the loop of format_uint._to_packed: the index of the first non-zero octet
RECURSIVE StripLeadingZeros(_)
StripLeadingZeros(pv) ==
    IF Len(pv) = 0 \/ pv[1] # 0 THEN pv ELSE StripLeadingZeros(Tail(pv))

RECURSIVE uint_from_packed_acc(_, _)
uint_from_packed_acc(data, value) ==
    IF data = << >> THEN value
    ELSE uint_from_packed_acc(Tail(data), (value * 256) + Head(data))

\* format_uint._from_packed
uint_from_packed(data) == uint_from_packed_acc(data, 0)

\* _to_packed without the loop that drops the leading zero octets
uint_to_packed_unstripped(value) ==
    IF value = 0 THEN Return(<< >>)
    ELSE IF value < 0 THEN Raise("struct.error")
    ELSE Return(BigEndian(value, 8))

\* format_uint._to_packed: struct.pack('!Q') rejects a negative value (and one
\* of 2^64 or more, beyond the integers of the model)
uint_to_packed(value) ==
    IF value = 0 THEN Return(<< >>)
    ELSE IF value < 0 THEN Raise("struct.error")
    ELSE Return(StripLeadingZeros(BigEndian(value, 8)))

IsCont(b) == 128 <= b /\ b <= 191

\* the length of the UTF-8 form that the lead octet c announces; 0 for an
\* octet that cannot lead
Utf8Len(c) ==
    IF c < 128 THEN 1
    ELSE IF 194 <= c /\ c <= 223 THEN 2
    ELSE IF 224 <= c /\ c <= 239 THEN 3
    ELSE IF 240 <= c /\ c <= 244 THEN 4
    ELSE 0

Utf8WellFormed(b, n) ==
    /\ n > 0
    /\ Len(b) >= n
    /\ \A i \in 2..n : IsCont(b[i])
    /\ (b[1] = 224 => b[2] >= 160)
    /\ (b[1] = 240 => b[2] >= 144)
    /\ (b[1] = 244 => b[2] <= 143)

Utf8CodePoint(b, n) ==
    IF n = 1 THEN b[1]
    ELSE IF n = 2 THEN (b[1] - 192) * 64 + (b[2] - 128)
    ELSE IF n = 3 THEN (b[1] - 224) * 4096 + (b[2] - 128) * 64 + (b[3] - 128)
    ELSE (b[1] - 240) * 262144 + (b[2] - 128) * 4096 + (b[3] - 128) * 64 + (b[4] - 128)

Utf8Cons(cp, rest) == IF rest.ok THEN Return(<<cp>> \o rest.v) ELSE rest

\* bytes.decode('utf-8') as format_string._from_packed uses it (Python 2
\* decoder: one to four octet forms, shortest form only).  The result is the
\* sequence of code points.
RECURSIVE Utf8Decode(_)
Utf8Decode(b) ==
    IF b = << >> THEN Return(<< >>)
    ELSE IF ~Utf8WellFormed(b, Utf8Len(b[1])) THEN Raise("UnicodeDecodeError")
    ELSE Utf8Cons(Utf8CodePoint(b, Utf8Len(b[1])), Utf8Decode(Drop(b, Utf8Len(b[1]))))

\* unicode.encode('utf-8') of one code point
Utf8EncodeOne(cp) ==
    IF cp < 128 THEN <<cp>>
    ELSE IF cp < 2048 THEN <<192 + (cp \div 64), 128 + (cp % 64)>>
    ELSE IF cp < 65536
         THEN <<224 + (cp \div 4096), 128 + ((cp \div 64) % 64), 128 + (cp % 64)>>
    ELSE <<240 + (cp \div 262144), 128 + ((cp \div 4096) % 64),
           128 + ((cp \div 64) % 64), 128 + (cp % 64)>>

\* unicode.encode('utf-8')
RECURSIVE Utf8Encode(_)
Utf8Encode(cps) ==
    IF cps = << >> THEN << >> ELSE Utf8EncodeOne(Head(cps)) \o Utf8Encode(Tail(cps))

\* unicodedata.normalize('NFC', value).  Every code point below U+0300 is
\* NFC-stable, and the texts the model packs stay below U+0300, where the
\* normalisation returns its argument.
NFC(cps) == cps

format_empty == [kind |-> "empty", max_length |-> 0, min_length |-> 0]
format_opaque(max_length, min_length) ==
    [kind |-> "opaque", max_length |-> max_length, min_length |-> min_length]
format_uint(max_length) == [kind |-> "uint", max_length |-> max_length, min_length |-> 0]
format_string(max_length, min_length) ==
    [kind |-> "string", max_length |-> max_length, min_length |-> min_length]

\* the length check of _format_base.to_packed on the packed value
PackedLengthCheck(fmt, pv) ==
    IF ~pv.ok THEN pv
    ELSE IF Len(pv.v) < fmt.min_length \/ fmt.max_length < Len(pv.v)
         THEN Raise("OptionValueLengthError")
    ELSE pv

\* _format_base.to_packed: the subclass's _to_packed, then the length check
format_to_packed(fmt, value) ==
    PackedLengthCheck(fmt,
                      IF fmt.kind = "uint" THEN uint_to_packed(value[1])
                      ELSE IF fmt.kind = "string" THEN Return(Utf8Encode(NFC(value)))
                      ELSE Return(value))

\* _format_base.from_packed: the length check, then the subclass's _from_packed
format_from_packed(fmt, pkd) ==
    IF Len(pkd) < fmt.min_length \/ fmt.max_length < Len(pkd)
    THEN Raise("OptionValueLengthError")
    ELSE IF fmt.kind = "uint" THEN Return(<<uint_from_packed(pkd)>>)
    ELSE IF fmt.kind = "string" THEN Utf8Decode(pkd)
    ELSE Return(pkd)

-----------------------------------------------------------------------------
(* Option types and the option registry: coapy/option.py *)

OptionDef(name, number, req, resp, fmt) ==
    [name |-> name, number |-> number, repeatable |-> <<req, resp>>, format |-> fmt]

\* The classes registered by their definitions (option.py:596-689).  A
\* cardinality is "True" (repeatable), "False" (at most once) or "None"
\* (not allowed), as in UrOption.repeatable.
OptionClasses == {
    OptionDef("IfMatch", 1, "True", "None", format_opaque(8, 0)),
    OptionDef("UriHost", 3, "False", "None", format_string(255, 1)),
    OptionDef("ETag", 4, "True", "False", format_opaque(8, 1)),
    OptionDef("IfNoneMatch", 5, "False", "None", format_empty),
    OptionDef("UriPort", 7, "False", "None", format_uint(2)),
    OptionDef("LocationPath", 8, "None", "True", format_string(255, 0)),
    OptionDef("UriPath", 11, "True", "None", format_string(255, 0)),
    OptionDef("ContentFormat", 12, "False", "False", format_uint(2)),
    OptionDef("MaxAge", 14, "None", "False", format_uint(4)),
    OptionDef("UriQuery", 15, "True", "None", format_string(255, 0)),
    OptionDef("Accept", 17, "False", "None", format_uint(2)),
    OptionDef("LocationQuery", 20, "None", "True", format_string(255, 0)),
    OptionDef("ProxyUri", 35, "False", "None", format_string(1034, 1)),
    OptionDef("ProxyScheme", 39, "False", "None", format_string(255, 1)),
    OptionDef("Size1", 60, "False", "False", format_uint(4)) }

\* _OptionRegistry after the module is loaded: number -> option class
_OptionRegistry == [n \in { c.number : c \in OptionClasses } |->
                        CHOOSE c \in OptionClasses : c.number = n]

\* find_option(number): the registered class, or None
find_option(number) ==
    IF number \in DOMAIN _OptionRegistry THEN Some(_OptionRegistry[number]) ELSE None

\* _register_option(option_class) on a registry number -> option class, for a
\* subclass of UrOption with an integer number and a format: the registry is
\* left as it was when it raises
_register_option(registry, option_class) ==
    IF ~(0 <= option_class.number /\ option_class.number <= 65535)
    THEN [ok |-> FALSE, exc |-> "InvalidOptionTypeError", reg |-> registry]
    ELSE IF option_class.number \in DOMAIN registry
    THEN [ok |-> FALSE, exc |-> "OptionRegistryConflictError", reg |-> registry]
    ELSE [ok |-> TRUE, exc |-> "",
          reg |-> [n \in DOMAIN registry \cup {option_class.number} |->
                      IF n = option_class.number THEN option_class ELSE registry[n]]]

\* class UnknownOption: repeatable = (True, True), format = format_opaque(1034)
UnknownOptionDef(number) ==
    OptionDef("UnknownOption", number, "True", "True", format_opaque(1034, 0))

\* A class an application adds by defining a subclass of UrOption:
\* _register_option accepts every number in 0..65535 that is not taken
\* (option.py:312-324), 0 included.  The one used here may occur at most once
\* in a request and in a response.
ApplicationOptionClasses == { OptionDef("ZeroOption", 0, "False", "False", format_opaque(8, 0)) }

\* the class of an option instance: UnknownOption, a class option.py
\* registers, or a class of the application
OptionClassOf(opt) ==
    IF opt.unrecognized THEN UnknownOptionDef(opt.number)
    ELSE IF opt.number \in DOMAIN _OptionRegistry THEN _OptionRegistry[opt.number]
    ELSE CHOOSE c \in ApplicationOptionClasses : c.number = opt.number

\* the test of the critical bit looking at bit 1 instead of bit 0
is_critical_option_bit_1(number) == (number \div 2) % 2 = 1

is_critical_option(number) == number % 2 = 1
is_unsafe_option(number) == (number \div 2) % 2 = 1
is_no_cache_key_option(number) == (number \div 2) % 16 = 14

valid_in_request(opt) == OptionClassOf(opt).repeatable[1] # "None"
valid_multiple_in_request(opt) == OptionClassOf(opt).repeatable[1] = "True"
valid_in_response(opt) == OptionClassOf(opt).repeatable[2] # "None"
valid_multiple_in_response(opt) == OptionClassOf(opt).repeatable[2] = "True"

\* the instance UrOption.__init__ leaves once the value was converted
OptionInstance(number, unrecognized, v) ==
    IF ~v.ok THEN v
    ELSE Return([number |-> number, value |-> v.v, unrecognized |-> unrecognized])

\* UrOption.__init__(packed_value=...) of a registered class: the value is
\* format.from_packed(packed_value)
OptionFromPacked(cls, pkd) ==
    OptionInstance(cls.number, FALSE, format_from_packed(cls.format, pkd))

\* UnknownOption.__init__(number, packed_value=...)
UnknownOption(number, pkd) ==
    IF ~(0 <= number /\ number <= 65535) THEN Raise("ValueError")
    ELSE IF find_option(number) # None THEN Raise("ValueError")
    ELSE OptionInstance(number, TRUE,
                        format_from_packed(UnknownOptionDef(number).format, pkd))

\* UrOption._set_value: self.__value = format.from_packed(format.to_packed(value))
set_value(fmt, pv) == IF pv.ok THEN format_from_packed(fmt, pv.v) ELSE pv

\* UrOption.__init__(unpacked_value=...)
OptionFromValue(cls, unrecognized, value) ==
    OptionInstance(cls.number, unrecognized,
                   set_value(cls.format, format_to_packed(cls.format, value)))

\* UrOption.packed_value
packed_value(opt) == format_to_packed(OptionClassOf(opt).format, opt.value)

-----------------------------------------------------------------------------
(* Option block codec: coapy/option.py *)

\* _optionint_helper = format_uint(2)
_optionint_helper == format_uint(2)

\* left-pad with NUL octets: the while loops of option_encoding
RECURSIVE PadLeft(_, _)
PadLeft(ovx, n) == IF Len(ovx) < n THEN PadLeft(<<0>> \o ovx, n) ELSE ovx

\* the extended nibble without the padding loops
option_encoded_unpadded(ov, width, p) ==
    IF ~p.ok THEN [ok |-> FALSE, exc |-> p.exc, ov |-> ov, ovx |-> << >>]
    ELSE [ok |-> TRUE, exc |-> "", ov |-> ov, ovx |-> p.v]

\* the pair option_encoding returns for an extended nibble
option_encoded(ov, width, p) ==
    IF ~p.ok THEN [ok |-> FALSE, exc |-> p.exc, ov |-> ov, ovx |-> << >>]
    ELSE [ok |-> TRUE, exc |-> "", ov |-> ov, ovx |-> PadLeft(p.v, width)]

\* format_uint.option_encoding(value): the nibble and its extension octets
option_encoding(value) ==
    IF 0 > value THEN [ok |-> FALSE, exc |-> "ValueError", ov |-> 0, ovx |-> << >>]
    ELSE IF value < 13 THEN [ok |-> TRUE, exc |-> "", ov |-> value, ovx |-> << >>]
    ELSE IF value < 269
         THEN option_encoded(13, 1, format_to_packed(_optionint_helper, <<value - 13>>))
    ELSE option_encoded(14, 2, format_to_packed(_optionint_helper, <<value - 269>>))

\* the extended nibble decoded without the base added
option_decoded_without_base(base, v, data) ==
    [ok |-> v.ok, exc |-> v.exc, value |-> IF v.ok THEN v.v[1] ELSE 0, data |-> data]

\* the pair option_decoding returns for an extended nibble
option_decoded(base, v, data) ==
    [ok |-> v.ok, exc |-> v.exc, value |-> IF v.ok THEN base + v.v[1] ELSE 0, data |-> data]

\* format_uint.option_decoding(ov, data): (value, rest of data)
option_decoding(ov, data) ==
    IF 15 <= ov THEN [ok |-> FALSE, exc |-> "ValueError", value |-> 0, data |-> data]
    ELSE IF 14 = ov
         THEN option_decoded(269, format_from_packed(_optionint_helper, Take(data, 2)),
                             Drop(data, 2))
    ELSE IF 13 = ov
         THEN option_decoded(13, format_from_packed(_optionint_helper, Take(data, 1)),
                             Drop(data, 1))
    ELSE [ok |-> TRUE, exc |-> "", value |-> ov, data |-> data]

\* sorted(options, key=lambda _o: _o.number): stable insertion by number
RECURSIVE InsertByNumber(_, _)
InsertByNumber(sorted, opt) ==
    IF sorted = << >> THEN <<opt>>
    ELSE IF sorted[Len(sorted)].number <= opt.number THEN Append(sorted, opt)
    ELSE Append(InsertByNumber(SubSeq(sorted, 1, Len(sorted) - 1), opt), sorted[Len(sorted)])

RECURSIVE SortedByNumber(_)
SortedByNumber(options) ==
    IF options = << >> THEN << >>
    ELSE InsertByNumber(SortedByNumber(SubSeq(options, 1, Len(options) - 1)),
                        options[Len(options)])

RECURSIVE encode_loop(_, _, _, _)

\* one pass of the loop of encode_options from opt.packed_value() on
encode_one(options, is_request, pkd, pvalue, od, ol) ==
    IF ~pvalue.ok THEN pvalue
    ELSE IF ~od.ok THEN Raise(od.exc)
    ELSE IF ~ol.ok THEN Raise(ol.exc)
    ELSE encode_loop(Tail(options), is_request, Head(options).number,
                     pkd \o <<od.ov * 16 + ol.ov>> \o od.ovx \o ol.ovx \o pvalue.v)

\* the loop of encode_options over the sorted options
encode_loop(options, is_request, last_number, pkd) ==
    IF options = << >> THEN Return(pkd)
    ELSE IF is_request
            /\ (~valid_in_request(Head(options))
                \/ (0 = Head(options).number - last_number
                    /\ ~valid_multiple_in_request(Head(options))))
    THEN Raise("InvalidRequestOptionError")
    ELSE IF ~is_request
            /\ (~valid_in_response(Head(options))
                \/ (0 = Head(options).number - last_number
                    /\ ~valid_multiple_in_response(Head(options))))
    THEN Raise("InvalidResponseOptionError")
    ELSE encode_one(options, is_request, pkd, packed_value(Head(options)),
                    option_encoding(Head(options).number - last_number),
                    option_encoding(Len(packed_value(Head(options)).v)))

\* encode_options(options, is_request)
encode_options(options, is_request) ==
    encode_loop(SortedByNumber(options), is_request, 0, << >>)

NoDelta == -1

DecodeOneRaise(e, data) ==
    [ok |-> FALSE, exc |-> e, delta |-> 0, length |-> 0, data |-> data]

\* _decode_one_option once the length was decoded
decode_one_length(d, l) ==
    IF ~l.ok THEN DecodeOneRaise(l.exc, l.data)
    ELSE [ok |-> TRUE, exc |-> "", delta |-> d.value, length |-> l.value, data |-> l.data]

\* _decode_one_option once the delta was decoded
decode_one_delta(ol, d) ==
    IF ~d.ok THEN DecodeOneRaise(d.exc, d.data)
    ELSE decode_one_length(d, option_decoding(ol, d.data))

\* a decoder that stops, as at the marker, at a header octet with a nibble 15
_decode_one_option_stopping_at_15(data) ==
    IF 255 = data[1] \/ 15 = data[1] \div 16 \/ 15 = data[1] % 16
    THEN [ok |-> TRUE, exc |-> "", delta |-> NoDelta, length |-> 0, data |-> data]
    ELSE decode_one_delta(data[1] % 16, option_decoding(data[1] \div 16, Tail(data)))

\* _decode_one_option(data), data not empty: (delta, length, data); delta is
\* None (NoDelta) at the payload marker
_decode_one_option(data) ==
    IF 255 = data[1]
    THEN [ok |-> TRUE, exc |-> "", delta |-> NoDelta, length |-> 0, data |-> data]
    ELSE IF 15 = data[1] \div 16 \/ 15 = data[1] % 16
    THEN DecodeOneRaise("OptionDecodeError", Tail(data))
    ELSE decode_one_delta(data[1] % 16, option_decoding(data[1] \div 16, Tail(data)))

DecodeRaise(e) == [ok |-> FALSE, exc |-> e, options |-> << >>, remainder |-> << >>]

RECURSIVE decode_loop(_, _, _)

\* the option instance the loop of decode_options builds
decode_instance(option_number, pkd) ==
    IF find_option(option_number) = None THEN UnknownOption(option_number, pkd)
    ELSE OptionFromPacked(find_option(option_number)[1], pkd)

\* options.append(opt), and the next pass
decode_append(opt, data, option_number, options) ==
    IF ~opt.ok THEN DecodeRaise(opt.exc)
    ELSE decode_loop(data, option_number, Append(options, opt.v))

\* one pass of the loop of decode_options, from the result of _decode_one_option
decode_pass(one, option_number, options) ==
    IF ~one.ok THEN DecodeRaise(one.exc)
    ELSE IF one.delta = NoDelta
    THEN [ok |-> TRUE, exc |-> "", options |-> options, remainder |-> one.data]
    ELSE decode_append(decode_instance(option_number + one.delta, Take(one.data, one.length)),
                       Drop(one.data, one.length), option_number + one.delta, options)

\* the while loop of decode_options
decode_loop(data, option_number, options) ==
    IF ~(0 < Len(data)) THEN [ok |-> TRUE, exc |-> "", options |-> options, remainder |-> data]
    ELSE decode_pass(_decode_one_option(data), option_number, options)

\* decode_options(data, is_request): (options, remainder)
decode_options(data, is_request) == decode_loop(data, 0, << >>)

\* the state of the loop of decode_options: the options appended, the data
\* left, and whether the loop has ended
DecodeLoop(done, options, data) ==
    [done |-> done, ok |-> TRUE, exc |-> "", options |-> options, remainder |-> data]
DecodeLoopRaise(e) ==
    [done |-> TRUE, ok |-> FALSE, exc |-> e, options |-> << >>, remainder |-> << >>]

\* a pass that takes the option and leaves the data as it found it
decode_append_once_keeping_data(opt, data, rest, options) ==
    IF ~opt.ok THEN DecodeLoopRaise(opt.exc)
    ELSE DecodeLoop(FALSE, Append(options, opt.v), data)

\* options.append(opt) in one pass of the loop
decode_append_once(opt, data, rest, options) ==
    IF ~opt.ok THEN DecodeLoopRaise(opt.exc)
    ELSE DecodeLoop(FALSE, Append(options, opt.v), rest)

\* a pass that takes the delta for the number of the option
decode_pass_once_delta_as_number(one, data, option_number, options) ==
    IF ~one.ok THEN DecodeLoopRaise(one.exc)
    ELSE IF one.delta = NoDelta THEN DecodeLoop(TRUE, options, one.data)
    ELSE decode_append_once(
           decode_instance(one.delta, Take(one.data, one.length)),
           data, Drop(one.data, one.length), options)

\* one pass of the loop from the result of _decode_one_option; data is what
\* the pass started with
decode_pass_once(one, data, option_number, options) ==
    IF ~one.ok THEN DecodeLoopRaise(one.exc)
    ELSE IF one.delta = NoDelta THEN DecodeLoop(TRUE, options, one.data)
    ELSE decode_append_once(
           decode_instance(option_number + one.delta, Take(one.data, one.length)),
           data, Drop(one.data, one.length), options)

\* the test of the while loop of decode_options and one pass of its body
decode_iteration(data, option_number, options) ==
    IF ~(0 < Len(data)) THEN DecodeLoop(TRUE, options, data)
    ELSE decode_pass_once(_decode_one_option(data), data, option_number, options)

-----------------------------------------------------------------------------
(* Message classes and the code registries: coapy/message.py *)

Type_CON == 0
Type_NON == 1
Type_ACK == 2
Type_RST == 3
Ver == 1
Empty == <<0, 0>>

MessageClasses == {"Message", "Request", "Response", "SuccessResponse", "Class3Response",
                   "ClientErrorResponse", "ServerErrorResponse"}

\* the base class in each class statement (message.py:824, 904, 915, 958, 973, 1042)
BaseClass(cls) ==
    CASE cls = "Request" -> "Message"
      [] cls = "Response" -> "Message"
      [] cls = "SuccessResponse" -> "Response"
      [] cls = "Class3Response" -> "Message"
      [] cls = "ClientErrorResponse" -> "Response"
      [] cls = "ServerErrorResponse" -> "Response"
      [] OTHER -> "object"

\* issubclass(cls, base)
RECURSIVE issubclass(_, _)
issubclass(cls, base) ==
    IF cls = base THEN TRUE
    ELSE IF cls = "Message" \/ cls = "object" THEN FALSE
    ELSE issubclass(BaseClass(cls), base)

\* isinstance(m, cls)
isinstance(m, cls) == issubclass(m.cls, cls)

\* the CodeClass attribute of each class: None where it is not overridden
CodeClass(cls) ==
    CASE cls = "Request" -> Some(0)
      [] cls = "SuccessResponse" -> Some(2)
      [] cls = "Class3Response" -> Some(3)
      [] cls = "ClientErrorResponse" -> Some(4)
      [] cls = "ServerErrorResponse" -> Some(5)
      [] OTHER -> None

\* Message.code_as_tuple for a tuple argument
code_as_tuple(code) ==
    IF 2 # Len(code) THEN Raise("ValueError")
    ELSE IF ~(0 <= code[1] /\ code[1] <= 7) THEN Raise("ValueError")
    ELSE IF ~(0 <= code[2] /\ code[2] <= 31) THEN Raise("ValueError")
    ELSE Return(code)

\* Message.code_as_tuple for an integer argument
code_as_tuple_int(code) ==
    IF 0 > code \/ 255 < code THEN Raise("ValueError")
    ELSE Return(<<code \div 32, code % 32>>)

\* Message.code_as_integer
code_as_integer(code) == (code[1] * 32) + code[2]

\* The two registries: [codes: code -> _CodeSupport, classes: class -> constructor]
EmptyRegistries == [codes |-> << >>, classes |-> << >>]

Registered(f, key) == \E i \in DOMAIN f : f[i].key = key
Lookup(f, key) == (CHOOSE i \in DOMAIN f : f[i].key = key)

\* Message.RegisterClassCode(clazz) called on cls: __CodeClassRegistry[clazz] = cls
RegisterClassCode(reg, cls, clazz) ==
    [reg EXCEPT !.classes =
        IF Registered(reg.classes, clazz)
        THEN [reg.classes EXCEPT ![Lookup(reg.classes, clazz)] =
                 [key |-> clazz, constructor |-> cls]]
        ELSE Append(reg.classes, [key |-> clazz, constructor |-> cls])]

\* Message.RegisterCode(code, name) called on cls; the registries are left as
\* they were when it raises
RegisterCode(reg, cls, code, name) ==
    IF Registered(reg.codes, code) THEN [ok |-> FALSE, exc |-> "ValueError", reg |-> reg]
    ELSE IF CodeClass(cls) # None /\ code[1] # CodeClass(cls)[1]
    THEN [ok |-> FALSE, exc |-> "ValueError", reg |-> reg]
    ELSE LET withClass ==
                 IF CodeClass(cls) # None /\ ~Registered(reg.classes, code[1])
                 THEN RegisterClassCode(reg, cls, CodeClass(cls)[1])
                 ELSE reg
         IN  [ok |-> TRUE, exc |-> "",
              reg |-> [withClass EXCEPT !.codes =
                          Append(withClass.codes,
                                 [key |-> code, name |-> name, constructor |-> cls])]]

\* The registrations executed when message.py is loaded, in order
ModuleRegistrations == <<
    [op |-> "code", cls |-> "Message", code |-> <<0, 0>>, name |-> "Empty"],
    [op |-> "code", cls |-> "Request", code |-> <<0, 1>>, name |-> "GET"],
    [op |-> "code", cls |-> "Request", code |-> <<0, 2>>, name |-> "POST"],
    [op |-> "code", cls |-> "Request", code |-> <<0, 3>>, name |-> "PUT"],
    [op |-> "code", cls |-> "Request", code |-> <<0, 4>>, name |-> "DELETE"],
    [op |-> "code", cls |-> "SuccessResponse", code |-> <<2, 1>>, name |-> "Created"],
    [op |-> "code", cls |-> "SuccessResponse", code |-> <<2, 2>>, name |-> "Deleted"],
    [op |-> "code", cls |-> "SuccessResponse", code |-> <<2, 3>>, name |-> "Valid"],
    [op |-> "code", cls |-> "SuccessResponse", code |-> <<2, 4>>, name |-> "Changed"],
    [op |-> "code", cls |-> "SuccessResponse", code |-> <<2, 5>>, name |-> "Content"],
    [op |-> "class", cls |-> "Class3Response", code |-> <<3, 0>>, name |-> ""],
    [op |-> "code", cls |-> "ClientErrorResponse", code |-> <<4, 0>>, name |-> "Bad Request"],
    [op |-> "code", cls |-> "ClientErrorResponse", code |-> <<4, 1>>, name |-> "Unauthorized"],
    [op |-> "code", cls |-> "ClientErrorResponse", code |-> <<4, 2>>, name |-> "Bad Option"],
    [op |-> "code", cls |-> "ClientErrorResponse", code |-> <<4, 3>>, name |-> "Forbidden"],
    [op |-> "code", cls |-> "ClientErrorResponse", code |-> <<4, 4>>, name |-> "Not Found"],
    [op |-> "code", cls |-> "ClientErrorResponse", code |-> <<4, 5>>,
     name |-> "Method Not Allowed"],
    [op |-> "code", cls |-> "ClientErrorResponse", code |-> <<4, 6>>, name |-> "Not Acceptable"],
    [op |-> "code", cls |-> "ClientErrorResponse", code |-> <<4, 12>>,
     name |-> "Precondition Failed"],
    [op |-> "code", cls |-> "ClientErrorResponse", code |-> <<4, 13>>,
     name |-> "Request Entity Too Large"],
    [op |-> "code", cls |-> "ClientErrorResponse", code |-> <<4, 15>>,
     name |-> "Unsupported Content-Format"],
    [op |-> "code", cls |-> "ServerErrorResponse", code |-> <<5, 0>>,
     name |-> "Internal Server Error"],
    [op |-> "code", cls |-> "ServerErrorResponse", code |-> <<5, 1>>, name |-> "Not Implemented"],
    [op |-> "code", cls |-> "ServerErrorResponse", code |-> <<5, 2>>, name |-> "Bad Gateway"],
    [op |-> "code", cls |-> "ServerErrorResponse", code |-> <<5, 3>>,
     name |-> "Service Unavailable"],
    [op |-> "code", cls |-> "ServerErrorResponse", code |-> <<5, 4>>, name |-> "Gateway Timeout"],
    [op |-> "code", cls |-> "ServerErrorResponse", code |-> <<5, 5>>,
     name |-> "Proxying Not Supported"] >>

RECURSIVE RunRegistrations(_, _)
RunRegistrations(reg, todo) ==
    IF todo = << >> THEN reg
    ELSE LET r == Head(todo)
             next == IF r.op = "class" THEN RegisterClassCode(reg, r.cls, r.code[1])
                     ELSE RegisterCode(reg, r.cls, r.code, r.name).reg
         IN  RunRegistrations(next, Tail(todo))

\* __CodeRegistry and __CodeClassRegistry once message.py is loaded
CodeRegistries == RunRegistrations(EmptyRegistries, ModuleRegistrations)

\* the lookup going to the registry of the classes at once
_type_for_code_class_only(code) ==
    IF Registered(CodeRegistries.classes, code[1])
    THEN Some(CodeRegistries.classes[Lookup(CodeRegistries.classes, code[1])].constructor)
    ELSE None

\* Message._type_for_code(code): the constructor, or None
_type_for_code(code) ==
    IF Registered(CodeRegistries.codes, code)
    THEN Some(CodeRegistries.codes[Lookup(CodeRegistries.codes, code)].constructor)
    ELSE IF Registered(CodeRegistries.classes, code[1])
    THEN Some(CodeRegistries.classes[Lookup(CodeRegistries.classes, code[1])].constructor)
    ELSE None

\* source_originates_type testing the low bit of the type instead
source_originates_type_low_bit(mtype) == mtype % 2 = 0

\* Message.source_originates_type(mtype): 0 == (0x02 & mtype)
source_originates_type(mtype) == (mtype \div 2) % 2 = 0

-----------------------------------------------------------------------------
(* The Message object: coapy/message.py *)

NoMsg == [cls |-> "object", type |-> Type_NON, code |-> None, messageID |-> None,
          token |-> << >>, options |-> << >>, payload |-> None,
          source_endpoint |-> None, destination_endpoint |-> None]

MsgRaise(e, m) == [ok |-> FALSE, exc |-> e, m |-> m]
MsgReturn(m) == [ok |-> TRUE, exc |-> "", m |-> m]

\* A bytes argument is [isbytes |-> TRUE, b |-> the octets]; a value of
\* another Python type is NotBytes.
Bytes(b) == [isbytes |-> TRUE, b |-> b]
NotBytes == [isbytes |-> FALSE, b |-> << >>]

\* Message._set_code
_set_code(m, code) ==
    LET c == code_as_tuple(code)
    IN  IF ~c.ok THEN MsgRaise(c.exc, m) ELSE MsgReturn([m EXCEPT !.code = c.v])

\* Message._set_messageID
_set_messageID(m, message_id) ==
    IF ~(0 <= message_id /\ message_id <= 65535) THEN MsgRaise("ValueError", m)
    ELSE MsgReturn([m EXCEPT !.messageID = Some(message_id)])

\* _set_token with the bound off by one
_set_token_nine(m, token) ==
    IF ~token.isbytes THEN MsgRaise("TypeError", m)
    ELSE IF Len(token.b) > 9 THEN MsgRaise("ValueError", m)
    ELSE MsgReturn([m EXCEPT !.token = token.b])

\* Message._set_token
_set_token(m, token) ==
    IF ~token.isbytes THEN MsgRaise("TypeError", m)
    ELSE IF Len(token.b) > 8 THEN MsgRaise("ValueError", m)
    ELSE MsgReturn([m EXCEPT !.token = token.b])

\* coapy.option.sorted_options(options): the options in a stable sort by number
sorted_options(options) == SortedByNumber(options)

\* Message._set_options
_set_options(m, value) == MsgReturn([m EXCEPT !.options = sorted_options(value)])

\* Message._sort_options
_sort_options(m) == [m EXCEPT !.options = sorted_options(m.options)]

\* the payload setter storing an empty byte string as it is
_set_payload_keeps_empty(m, payload) ==
    IF payload # None /\ ~payload[1].isbytes THEN MsgRaise("TypeError", m)
    ELSE MsgReturn([m EXCEPT !.payload = IF payload = None THEN None ELSE Some(payload[1].b)])

\* Message._set_payload; payload is None or Some(a bytes argument)
_set_payload(m, payload) ==
    IF payload # None /\ ~payload[1].isbytes THEN MsgRaise("TypeError", m)
    ELSE IF payload # None /\ 0 = Len(payload[1].b) THEN MsgReturn([m EXCEPT !.payload = None])
    ELSE MsgReturn([m EXCEPT !.payload = IF payload = None THEN None ELSE Some(payload[1].b)])

\* the type selected by the constructor's flags
TypeOfFlags(confirmable, acknowledgement, reset) ==
    IF confirmable THEN Type_CON
    ELSE IF acknowledgement THEN Type_ACK
    ELSE IF reset THEN Type_RST
    ELSE Type_NON

\* the next statement of a method runs on the message the previous one left,
\* unless that one raised
Bind(r, F(_)) == IF r.ok THEN F(r.m) ELSE r

\* an exception in __init__ leaves no instance
NoInstanceOnRaise(r) == IF r.ok THEN r ELSE MsgRaise(r.exc, NoMsg)

\* Message.__init__ (inherited by every subclass).  kw has the fields
\* confirmable, acknowledgement, reset (booleans), code (None or the code),
\* and messageID, token, options, payload, each None or Some(argument).
Message__init__(cls, kw) ==
    NoInstanceOnRaise(
      Bind(Bind(Bind(Bind(
        IF kw.code = None
        THEN MsgReturn([NoMsg EXCEPT !.cls = cls,
                          !.type = TypeOfFlags(kw.confirmable, kw.acknowledgement, kw.reset)])
        ELSE _set_code([NoMsg EXCEPT !.cls = cls,
                          !.type = TypeOfFlags(kw.confirmable, kw.acknowledgement, kw.reset)],
                       kw.code),
        LAMBDA m : IF kw.messageID = None THEN MsgReturn(m)
                   ELSE _set_messageID(m, kw.messageID[1])),
        LAMBDA m : IF kw.token = None THEN MsgReturn([m EXCEPT !.token = << >>])
                   ELSE _set_token(m, kw.token[1])),
        LAMBDA m : IF kw.options = None THEN MsgReturn(m)
                   ELSE _set_options(m, kw.options[1])),
        LAMBDA m : _set_payload(m, kw.payload)))

\* Message._set_source_endpoint; ep is None or Some(an Endpoint)
_set_source_endpoint(m, ep) ==
    IF ep = None /\ m.source_endpoint = None THEN MsgReturn(m)
    ELSE IF ep = None THEN MsgRaise("TypeError", m)
    ELSE IF m.source_endpoint # None /\ m.source_endpoint # ep THEN MsgRaise("ValueError", m)
    ELSE MsgReturn([m EXCEPT !.source_endpoint = ep])

\* Message._set_destination_endpoint
_set_destination_endpoint(m, ep) ==
    IF ep = None /\ m.destination_endpoint = None THEN MsgReturn(m)
    ELSE IF ep = None THEN MsgRaise("TypeError", m)
    ELSE IF m.destination_endpoint # None /\ m.destination_endpoint # ep
    THEN MsgRaise("ValueError", m)
    ELSE MsgReturn([m EXCEPT !.destination_endpoint = ep])

\* the is_request argument of the option codec: the message's role
IsRequestRole(m) == isinstance(m, "Request")

\* b''.join(elements) in to_packed; opts is the outcome of encode_options
to_packed_join(m, opts) ==
    IF ~opts.ok THEN opts
    ELSE Return(<<64 + (m.type * 16) + (Len(m.token) % 16), code_as_integer(m.code),
                  m.messageID[1] \div 256, m.messageID[1] % 256>>
                \o m.token \o opts.v
                \o (IF m.payload # None /\ m.payload[1] # << >>
                    THEN <<255>> \o m.payload[1] ELSE << >>))

\* Message.to_packed: the octets, or the exception that escapes
to_packed(m) ==
    IF m.code = None THEN Raise("ValueError")
    ELSE IF m.messageID = None THEN Raise("struct.error")
    ELSE to_packed_join(m, IF m.options # << >>
                           THEN encode_options(m.options, IsRequestRole(m))
                           ELSE Return(<< >>))

\* MessageFormatError diagnostics
TOKEN_TOO_LONG == "token too long"
ZERO_LENGTH_PAYLOAD == "zero-length payload"
INVALID_OPTION == "option decode error"
EMPTY_MESSAGE_NOT_EMPTY == "excess content in Empty message"
UNRECOGNIZED_CODE_CLASS == "unrecognized code class"

NoDkw == [type |-> 0, code |-> << >>, messageID |-> -1]

\* outcomes of from_packed
FpNone == [kind |-> "None", exc |-> "", diag |-> "", dkw |-> NoDkw, m |-> NoMsg]
FpRaise(e) == [kind |-> "raise", exc |-> e, diag |-> "", dkw |-> NoDkw, m |-> NoMsg]
MessageFormatError(diag, dkw) ==
    [kind |-> "raise", exc |-> "MessageFormatError", diag |-> diag, dkw |-> dkw, m |-> NoMsg]
FpMessage(m) == [kind |-> "ok", exc |-> "", diag |-> "", dkw |-> NoDkw, m |-> m]

\* bytearray.pop(0) of an empty bytearray raises (OverflowError in Python 2,
\* IndexError in later versions)
PopEmpty == "OverflowError"

\* the version test looking at the high bit of the field only
VersionMatches_high_bit(vttkl) == (vttkl \div 128) = 0

\* the version test of from_packed (message.py:608-609)
VersionMatches(vttkl) == (vttkl \div 64) = Ver

\* the exceptions of the option decoder that from_packed turns into
\* INVALID_OPTION (message.py:629)
CaughtByFromPacked(exc) == exc = "OptionDecodeError"

\* the last statement of from_packed: constructor(**kw)
FpConstructed(r) == IF ~r.ok THEN FpRaise(r.exc) ELSE FpMessage(r.m)

\* from_packed from the constructor lookup on (message.py:643-655)
from_packed_dispatch(message_type, code, message_id, token, options, payload, dkw) ==
    IF _type_for_code(code) = None THEN MessageFormatError(UNRECOGNIZED_CODE_CLASS, dkw)
    ELSE FpConstructed(
           Message__init__(_type_for_code(code)[1],
                           [confirmable |-> (Type_CON = message_type),
                            acknowledgement |-> (Type_ACK = message_type),
                            reset |-> (Type_RST = message_type),
                            code |-> code,
                            messageID |-> Some(message_id),
                            token |-> Some(Bytes(token)),
                            options |-> Some(options),
                            payload |-> payload]))

\* from_packed once decode_options has run (message.py:627-642)
from_packed_payload(message_type, code, message_id, token, decoded, dkw) ==
    IF ~decoded.ok
    THEN IF CaughtByFromPacked(decoded.exc) THEN MessageFormatError(INVALID_OPTION, dkw)
         ELSE FpRaise(decoded.exc)
    ELSE IF 0 < Len(decoded.remainder) /\ 255 # decoded.remainder[1]
    THEN MessageFormatError(INVALID_OPTION, dkw)
    ELSE IF 0 < Len(decoded.remainder) /\ 0 = Len(Tail(decoded.remainder))
    THEN MessageFormatError(ZERO_LENGTH_PAYLOAD, dkw)
    ELSE from_packed_dispatch(message_type, code, message_id, token, decoded.options,
                              IF 0 < Len(decoded.remainder)
                              THEN Some(Bytes(Tail(decoded.remainder))) ELSE None,
                              dkw)

\* from_packed once the header is parsed (message.py:617-626)
from_packed_token(message_type, tkl, code, message_id, data, dkw) ==
    IF 9 <= tkl THEN MessageFormatError(TOKEN_TOO_LONG, dkw)
    ELSE IF Empty = code /\ (0 # tkl \/ 0 < Len(data))
    THEN MessageFormatError(EMPTY_MESSAGE_NOT_EMPTY, dkw)
    ELSE from_packed_payload(message_type, code, message_id, Take(data, tkl),
                             decode_options(IF 0 < tkl THEN Drop(data, tkl) ELSE data, FALSE),
                             dkw)

\* Message.from_packed, after the four header octets were read
from_packed_body(vttkl, code, message_id, data) ==
    from_packed_token((vttkl \div 16) % 4, vttkl % 16, code, message_id, data,
                      [type |-> (vttkl \div 16) % 4, code |-> code, messageID |-> message_id])

\* Message.from_packed(packed_message)
from_packed(packed_message) ==
    IF Len(packed_message) < 1 THEN FpRaise(PopEmpty)
    ELSE IF ~VersionMatches(packed_message[1]) THEN FpNone
    ELSE IF Len(packed_message) < 4 THEN FpRaise(PopEmpty)
    ELSE from_packed_body(packed_message[1],
                          code_as_tuple_int(packed_message[2]).v,
                          (packed_message[3] * 256) + packed_message[4],
                          Drop(packed_message, 4))

-----------------------------------------------------------------------------
(* Validation and reply derivation: coapy/message.py *)

\* MessageValidationError diagnostics
CODE_UNDEFINED == "missing code"
CODE_INSTANCE_CONFLICT == "code inconsistent with message class"
CODE_TYPE_CONFLICT == "code and messageType conflict"
PROXY_URI_CONFLICT == "Proxy-Uri mixed with Uri-*"
UNRECOGNIZED_CRITICAL_OPTION == "Unrecognized critical option"

\* MessageReplyError diagnostics
ACK_FOR_NON == "ACK of NON-confirmable message"
INVALID_TYPE == "Reply to unrepliable message"

is_confirmable(m) == Type_CON = m.type
is_non_confirmable(m) == Type_NON = m.type
is_acknowledgement(m) == Type_ACK = m.type
is_reset(m) == Type_RST = m.type

\* isinstance(opt, <registered option class>), by the class's number
IsOptionOfClass(opt, number) == ~opt.unrecognized /\ opt.number = number

\* coapy.option.UnrecognizedOption: the raw form of an option, its number and
\* its packed value
UnrecognizedOption(opt) ==
    [number |-> opt.number, value |-> packed_value(opt).v, unrecognized |-> TRUE]

\* coapy.option.replace_unacceptable_options(options, is_request): an option
\* that is not allowed in the role is replaced by its raw form
RECURSIVE replace_unacceptable_options(_, _)
replace_unacceptable_options(options, is_request) ==
    IF options = << >> THEN << >>
    ELSE LET opt == Head(options)
             unacceptable == /\ ~opt.unrecognized
                             /\ \/ (is_request /\ ~valid_in_request(opt))
                                \/ (~is_request /\ ~valid_in_response(opt))
         IN  <<IF unacceptable THEN UnrecognizedOption(opt) ELSE opt>>
             \o replace_unacceptable_options(Tail(options), is_request)

\* <option class>.first_match(options): is there an instance of the class
HasMatch(number, opts) == \E i \in DOMAIN opts : IsOptionOfClass(opts[i], number)

\* the conflicting options with Uri-Query left out of the isinstance tuple
ProxyUriBadOpts_without_query(opts) ==
    SelectSeq(opts, LAMBDA o : \/ IsOptionOfClass(o, 3) \/ IsOptionOfClass(o, 7)
                               \/ IsOptionOfClass(o, 11))

\* the options that conflict with Proxy-Uri (message.py:753-758)
ProxyUriBadOpts(opts) ==
    SelectSeq(opts, LAMBDA o : \/ IsOptionOfClass(o, 3) \/ IsOptionOfClass(o, 7)
                               \/ IsOptionOfClass(o, 11) \/ IsOptionOfClass(o, 15))

NoOpt == [number |-> -1, value |-> << >>, unrecognized |-> FALSE]

ValidationError(diag, m) ==
    [ok |-> FALSE, exc |-> "MessageValidationError", diag |-> diag, m |-> m, opt |-> NoOpt]
Validated(m) == [ok |-> TRUE, exc |-> "", diag |-> "", m |-> m, opt |-> NoOpt]

\* the code/type test with the acknowledgement branch left out
CodeTypeConflict_without_ack(m) ==
    IF is_reset(m) THEN TRUE
    ELSE ~(isinstance(m, "Response") \/ isinstance(m, "Request"))

\* the code/type test of validate for a message with a non-Empty code
\* (message.py:733-740)
CodeTypeConflict(m) ==
    IF is_reset(m) THEN TRUE
    ELSE IF is_acknowledgement(m) THEN ~isinstance(m, "Response")
    ELSE ~(isinstance(m, "Response") \/ isinstance(m, "Request"))

\* the loop over the unrecognized options (message.py:761-765): the first
\* critical one, if any
RECURSIVE FirstCriticalUnrecognized(_)
FirstCriticalUnrecognized(opts) ==
    IF opts = << >> THEN None
    ELSE IF Head(opts).unrecognized /\ is_critical_option(Head(opts).number)
    THEN Some(Head(opts))
    ELSE FirstCriticalUnrecognized(Tail(opts))

\* validate from the Proxy-Uri test on (message.py:749-765); m is the message
\* with its options replaced and sorted
validate_options(m) ==
    IF isinstance(m, "Request") /\ HasMatch(35, m.options)
       /\ 0 < Len(ProxyUriBadOpts(m.options))
    THEN ValidationError(PROXY_URI_CONFLICT, m)
    ELSE IF FirstCriticalUnrecognized(m.options) # None
    THEN [ValidationError(UNRECOGNIZED_CRITICAL_OPTION, m)
             EXCEPT !.opt = FirstCriticalUnrecognized(m.options)[1]]
    ELSE Validated(m)

\* the Empty test with the payload left out
EmptyMessageNotEmpty_without_payload(m) ==
    Empty = m.code /\ (m.token # << >> \/ m.options # << >>)

\* the Empty test of validate (message.py:726-730)
EmptyMessageNotEmpty(m) ==
    Empty = m.code /\ (m.token # << >> \/ m.options # << >> \/ m.payload # None)

\* the subtype test of validate (message.py:742-744)
CodeInstanceConflict(m) ==
    _type_for_code(m.code) # None /\ ~isinstance(m, _type_for_code(m.code)[1])

\* validate testing the class of the instance before the type
validate_instance_first(m) ==
    IF m.code = None THEN ValidationError(CODE_UNDEFINED, m)
    ELSE IF EmptyMessageNotEmpty(m) THEN ValidationError(EMPTY_MESSAGE_NOT_EMPTY, m)
    ELSE IF Empty # m.code /\ CodeInstanceConflict(m)
    THEN ValidationError(CODE_INSTANCE_CONFLICT, m)
    ELSE IF Empty # m.code /\ CodeTypeConflict(m)
    THEN ValidationError(CODE_TYPE_CONFLICT, m)
    ELSE validate_options(
           _sort_options(
             IF isinstance(m, "Response") \/ isinstance(m, "Request")
             THEN [m EXCEPT !.options =
                      replace_unacceptable_options(m.options, isinstance(m, "Request"))]
             ELSE m))

\* Message.validate: the outcome, and the message with its options as
\* validate leaves them
validate(m) ==
    IF m.code = None THEN ValidationError(CODE_UNDEFINED, m)
    ELSE IF EmptyMessageNotEmpty(m) THEN ValidationError(EMPTY_MESSAGE_NOT_EMPTY, m)
    ELSE IF Empty # m.code /\ CodeTypeConflict(m)
    THEN ValidationError(CODE_TYPE_CONFLICT, m)
    ELSE IF Empty # m.code /\ CodeInstanceConflict(m)
    THEN ValidationError(CODE_INSTANCE_CONFLICT, m)
    ELSE validate_options(
           _sort_options(
             IF isinstance(m, "Response") \/ isinstance(m, "Request")
             THEN [m EXCEPT !.options =
                      replace_unacceptable_options(m.options, isinstance(m, "Request"))]
             ELSE m))

ReplyError(diag) ==
    [ok |-> FALSE, exc |-> "MessageReplyError", diag |-> diag, rm |-> NoMsg]

\* the keyword arguments of the reply with the message ID left out
ReplyKw_without_messageID(m, reset) ==
    [confirmable |-> FALSE, acknowledgement |-> ~reset, reset |-> reset,
     code |-> Empty, messageID |-> None,
     token |-> None, options |-> None, payload |-> None]

\* the keyword arguments create_reply passes to Message (message.py:786-789)
ReplyKw(m, reset) ==
    [confirmable |-> FALSE, acknowledgement |-> ~reset, reset |-> reset,
     code |-> Empty, messageID |-> m.messageID,
     token |-> None, options |-> None, payload |-> None]

ReplyCreated(r) ==
    IF ~r.ok THEN [ok |-> FALSE, exc |-> r.exc, diag |-> "", rm |-> NoMsg]
    ELSE [ok |-> TRUE, exc |-> "", diag |-> "", rm |-> r.m]

\* Message.create_reply(reset)
create_reply(m, reset) ==
    IF ~source_originates_type(m.type) THEN ReplyError(INVALID_TYPE)
    ELSE IF ~reset /\ ~is_confirmable(m) THEN ReplyError(ACK_FOR_NON)
    ELSE ReplyCreated(
           Bind(Bind(Message__init__("Message", ReplyKw(m, reset)),
                     LAMBDA rm : _set_source_endpoint(rm, m.destination_endpoint)),
                LAMBDA rm : _set_destination_endpoint(rm, m.source_endpoint)))

\* the keyword arguments of the response with the caller's reset left in
ResponseKw_keeps_reset(m, piggy_backed, confirmable, kw) ==
    IF piggy_backed
    THEN [kw EXCEPT !.confirmable = FALSE, !.acknowledgement = TRUE,
                    !.messageID = m.messageID, !.token = Some(Bytes(m.token))]
    ELSE [kw EXCEPT !.acknowledgement = FALSE, !.confirmable = confirmable,
                    !.token = Some(Bytes(m.token))]

\* the keyword arguments create_response passes to rclass (message.py:884-892).
\* kw holds the caller's other keywords; a keyword that is popped takes the
\* default of Message.__init__.  confirmable is a parameter of
\* create_response itself, so kw never brings one.
ResponseKw(m, piggy_backed, confirmable, kw) ==
    IF piggy_backed
    THEN [kw EXCEPT !.reset = FALSE, !.confirmable = FALSE, !.acknowledgement = TRUE,
                    !.messageID = m.messageID, !.token = Some(Bytes(m.token))]
    ELSE [kw EXCEPT !.reset = FALSE, !.acknowledgement = FALSE,
                    !.confirmable = confirmable, !.token = Some(Bytes(m.token))]

\* Request.create_response(rclass, piggy_backed, confirmable, **kw)
create_response(m, rclass, piggy_backed, confirmable, kw) ==
    IF ~issubclass(rclass, "Response") THEN ReplyCreated(MsgRaise("ValueError", NoMsg))
    ELSE ReplyCreated(
           Bind(Bind(Message__init__(rclass, ResponseKw(m, piggy_backed, confirmable, kw)),
                     LAMBDA rm : _set_source_endpoint(rm, m.destination_endpoint)),
                LAMBDA rm : _set_destination_endpoint(rm, m.source_endpoint)))

-----------------------------------------------------------------------------
(* Transmission parameters and the retransmission schedule: coapy/message.py *)

\* A duration, and the factor ACK_RANDOM_FACTOR, is kept as a count of quarters
\* (1.5 is 6), so that the sums and products of the values used here, all
\* multiples of 0.25 that binary floating point holds exactly, are exact in
\* the model as they are in Python.  MAX_RETRANSMIT, NSTART and PROBING_RATE
\* are plain integers.
Seconds(n) == 4 * n
\* a * b for two numbers kept in quarters
Times(a, b) == (a * b) \div 4

NoParams ==
    [cls |-> "object", ACK_TIMEOUT |-> 0, ACK_RANDOM_FACTOR |-> 0, MAX_RETRANSMIT |-> 0,
     NSTART |-> 0, DEFAULT_LEISURE |-> 0, PROBING_RATE |-> 0, MAX_LATENCY |-> 0,
     PROCESSING_DELAY |-> 0, MAX_TRANSMIT_SPAN |-> 0, MAX_TRANSMIT_WAIT |-> 0,
     MAX_RTT |-> 0, EXCHANGE_LIFETIME |-> 0, NON_LIFETIME |-> 0]

\* TransmissionParameters(): an instance reads the class attributes
\* (message.py:1122-1175)
TransmissionParameters ==
    [cls |-> "TransmissionParameters",
     ACK_TIMEOUT |-> Seconds(2), ACK_RANDOM_FACTOR |-> 6, MAX_RETRANSMIT |-> 4,
     NSTART |-> 1, DEFAULT_LEISURE |-> Seconds(5), PROBING_RATE |-> 1,
     MAX_LATENCY |-> Seconds(100), PROCESSING_DELAY |-> Seconds(2),
     MAX_TRANSMIT_SPAN |-> Seconds(45), MAX_TRANSMIT_WAIT |-> Seconds(93),
     MAX_RTT |-> Seconds(202), EXCHANGE_LIFETIME |-> Seconds(247),
     NON_LIFETIME |-> Seconds(145)]

PrimitiveNames == {"ACK_TIMEOUT", "ACK_RANDOM_FACTOR", "MAX_RETRANSMIT", "NSTART",
                   "DEFAULT_LEISURE", "PROBING_RATE", "MAX_LATENCY", "PROCESSING_DELAY"}

ParamsRaise(e, p) == [ok |-> FALSE, exc |-> e, p |-> p]
ParamsReturn(p) == [ok |-> TRUE, exc |-> "", p |-> p]

\* MAX_TRANSMIT_WAIT with the shift of MAX_TRANSMIT_SPAN
max_transmit_wait_same_shift(p) ==
    Times(p.ACK_TIMEOUT * ((2 ^ p.MAX_RETRANSMIT) - 1), p.ACK_RANDOM_FACTOR)

\* ACK_TIMEOUT * ((1 << MAX_RETRANSMIT) - 1) * ACK_RANDOM_FACTOR
max_transmit_span(p) ==
    Times(p.ACK_TIMEOUT * ((2 ^ p.MAX_RETRANSMIT) - 1), p.ACK_RANDOM_FACTOR)

\* ACK_TIMEOUT * ((1 << (MAX_RETRANSMIT + 1)) - 1) * ACK_RANDOM_FACTOR
max_transmit_wait(p) ==
    Times(p.ACK_TIMEOUT * ((2 ^ (p.MAX_RETRANSMIT + 1)) - 1), p.ACK_RANDOM_FACTOR)

\* (2 * MAX_LATENCY) + PROCESSING_DELAY
max_rtt(p) == (2 * p.MAX_LATENCY) + p.PROCESSING_DELAY

\* the five assignments of recalculate_derived, in order: the two lifetimes
\* read the span and the round trip time assigned just before
recalculate_assign(p, span, wait, rtt) ==
    [p EXCEPT !.MAX_TRANSMIT_SPAN = span, !.MAX_TRANSMIT_WAIT = wait, !.MAX_RTT = rtt,
              !.EXCHANGE_LIFETIME = span + rtt, !.NON_LIFETIME = span + p.MAX_LATENCY]

\* TransmissionParameters.recalculate_derived: a negative shift count raises
\* in the first expression, before anything is assigned
recalculate_derived(p) ==
    IF p.MAX_RETRANSMIT < 0 THEN ParamsRaise("ValueError", p)
    ELSE ParamsReturn(recalculate_assign(p, max_transmit_span(p), max_transmit_wait(p),
                                         max_rtt(p)))

NoState == [cls |-> "object", timeout |-> 0, max_retransmissions |-> 0, counter |-> 0]

StateRaise(e, rs) == [ok |-> FALSE, exc |-> e, rs |-> rs, rv |-> None]
StateReturn(rs, rv) == [ok |-> TRUE, exc |-> "", rs |-> rs, rv |-> rv]

\* the values random.random() is drawn from: 0.0 and 0.5 of [0.0, 1.0)
RandomValues == {0, 2}

\* the initial timeout RetransmissionState.__init__ computes when it is given
\* none: ACK_TIMEOUT + random.random() * (ACK_RANDOM_FACTOR - 1.0)
default_timeout(tp, random) == tp.ACK_TIMEOUT + Times(random, tp.ACK_RANDOM_FACTOR - 4)

\* RetransmissionState.__init__(initial_timeout, max_retransmissions,
\* transmission_parameters): the first two are None or Some(number), the third
\* is NoParams for an argument that is no TransmissionParameters instance
RetransmissionState(initial_timeout, max_retransmissions, tp, random) ==
    IF tp = NoParams /\ (initial_timeout = None \/ max_retransmissions = None)
    THEN StateRaise("ValueError", NoState)
    ELSE StateReturn(
           [cls |-> "RetransmissionState",
            timeout |-> IF initial_timeout = None THEN default_timeout(tp, random)
                        ELSE initial_timeout[1],
            max_retransmissions |-> IF max_retransmissions = None THEN tp.MAX_RETRANSMIT
                                    ELSE max_retransmissions[1],
            counter |-> 0],
           None)

\* TransmissionParameters.make_bebo(initial_timeout, max_retransmissions)
make_bebo(tp, initial_timeout, max_retransmissions, random) ==
    RetransmissionState(initial_timeout, max_retransmissions, tp, random)

\* RetransmissionState.retransmissions_remaining
retransmissions_remaining(rs) == rs.max_retransmissions - rs.counter

\* RetransmissionState.__iter__: the instance itself
RetransmissionState__iter__(rs) == StateReturn(rs, None)

\* next() that starts over when the schedule is used up
next_restarting(rs) ==
    IF rs.counter >= rs.max_retransmissions
    THEN StateReturn([rs EXCEPT !.counter = 0], Some(rs.timeout))
    ELSE StateReturn([rs EXCEPT !.counter = rs.counter + 1,
                                !.timeout = rs.timeout + rs.timeout],
                     Some(rs.timeout))

\* RetransmissionState.next
next(rs) ==
    IF rs.counter >= rs.max_retransmissions THEN StateRaise("StopIteration", rs)
    ELSE StateReturn([rs EXCEPT !.counter = rs.counter + 1,
                                !.timeout = rs.timeout + rs.timeout],
                     Some(rs.timeout))

-----------------------------------------------------------------------------
(* Inputs of the scenarios *)

\* the longest option list handed to a message
MaxOpts == 2
\* the longest run of octets after the header (and token) of a received buffer
MaxBody == 3

\* an instance of a registered option class with the given unpacked value
Opt(number, value) == OptionFromValue(_OptionRegistry[number], FALSE, value).v
\* an instance of UnknownOption
Unknown(number, value) == OptionFromValue(UnknownOptionDef(number), TRUE, value).v

Token8 == <<1, 2, 3, 4, 5, 6, 7, 8>>
Token9 == <<1, 2, 3, 4, 5, 6, 7, 8, 9>>

Endpoints == {"ep1", "ep2"}

Kw(flags, code, messageID, token, options, payload) ==
    [confirmable |-> flags[1], acknowledgement |-> flags[2], reset |-> flags[3],
     code |-> code, messageID |-> messageID, token |-> token,
     options |-> options, payload |-> payload]

Flags == { <<c, a, r>> : c \in BOOLEAN, a \in BOOLEAN, r \in BOOLEAN }

Outcome(kind, exc, diag) ==
    [kind |-> kind, exc |-> exc, diag |-> diag, dkw |-> NoDkw, opt |-> NoOpt]
NoResult == Outcome("", "", "")
OutcomeOf(r) == IF r.ok THEN Outcome("ok", "", "") ELSE Outcome("raise", r.exc, "")

-----------------------------------------------------------------------------
(* Operations on one Message instance *)

\* no call yet, and nothing returned
NoCall == [fn |-> ""]
NoRet == [ok |-> FALSE, exc |-> "", v |-> << >>]

\* the outcome of a call that returns or raises
Returns(r) == result' = OutcomeOf(r)

ConstructorReturns(r) ==
    /\ msg' = r.m
    /\ Returns(r)
    /\ pc' = IF r.ok THEN "__init__" ELSE "failed"

\* cls(**kw): the constructor call, for a class and arguments of the given sets
Construct(classes, kws) ==
    /\ pc = "start"
    /\ \E cls \in classes, kw \in kws : ConstructorReturns(Message__init__(cls, kw))
    /\ UNCHANGED <<packed, reply, transmission, function>>

Constructed == msg # NoMsg

\* an attribute assignment: the message is replaced when the setter returns,
\* kept when it raises
Assign(op, r) ==
    /\ Constructed
    /\ msg' = r.m
    /\ result' = OutcomeOf(r)
    /\ pc' = op
    /\ packed' = << >>
    /\ reply' = NoMsg
    /\ UNCHANGED <<transmission, function>>

SetCode(code) == Assign("code", _set_code(msg, code))
SetMessageID(id) == Assign("messageID", _set_messageID(msg, id))
SetToken(token) == Assign("token", _set_token(msg, token))
SetOptions(options) == Assign("options", _set_options(msg, options))
SetPayload(payload) == Assign("payload", _set_payload(msg, payload))
\* the value assigned to an endpoint attribute, and the value the attribute
\* had before
EndpointCall(op, ep, before) == [fn |-> op, ep |-> ep, before |-> before]

\* an assignment to an endpoint attribute
AssignEndpoint(c, r) ==
    /\ Constructed
    /\ msg' = r.m
    /\ result' = OutcomeOf(r)
    /\ pc' = c.fn
    /\ call' = c
    /\ packed' = << >>
    /\ reply' = NoMsg
    /\ UNCHANGED <<transmission, ret>>

SetSourceEndpoint(ep) ==
    AssignEndpoint(EndpointCall("source_endpoint", ep, msg.source_endpoint),
                   _set_source_endpoint(msg, ep))
SetDestinationEndpoint(ep) ==
    AssignEndpoint(EndpointCall("destination_endpoint", ep, msg.destination_endpoint),
                   _set_destination_endpoint(msg, ep))

ValidateReturns(r) ==
    /\ msg' = r.m
    /\ result' = [Outcome(IF r.ok THEN "ok" ELSE "raise", r.exc, r.diag) EXCEPT !.opt = r.opt]

\* m.validate()
Validate ==
    /\ Constructed
    /\ ValidateReturns(validate(msg))
    /\ pc' = "validate"
    /\ packed' = << >>
    /\ reply' = NoMsg
    /\ UNCHANGED <<transmission, function>>

CreateReplyReturns(r) ==
    /\ reply' = r.rm
    /\ result' = Outcome(IF r.ok THEN "ok" ELSE "raise", r.exc, r.diag)

\* m.create_reply(reset)
CreateReply(reset) ==
    /\ Constructed
    /\ CreateReplyReturns(create_reply(msg, reset))
    /\ pc' = IF reset THEN "create_reply(reset=True)" ELSE "create_reply(reset=False)"
    /\ packed' = << >>
    /\ UNCHANGED <<msg, transmission, function>>

\* the arguments of a create_response call
ResponseCall(rclass, piggy_backed, confirmable, kw) ==
    [fn |-> "create_response", rclass |-> rclass, piggy_backed |-> piggy_backed,
     confirmable |-> confirmable, kw |-> kw]

CreateResponseCalled(c) ==
    /\ call' = c
    /\ CreateReplyReturns(create_response(msg, c.rclass, c.piggy_backed, c.confirmable, c.kw))

\* m.create_response(rclass, piggy_backed, confirmable, **kw) on a Request, for
\* arguments of the given sets; the scenario creates one response, for the
\* request as it was constructed and bound to its endpoints
CreateResponse(classes, kws) ==
    /\ pc \in {"__init__", "source_endpoint", "destination_endpoint"}
    /\ isinstance(msg, "Request")
    /\ \E rclass \in classes, piggy_backed \in BOOLEAN, confirmable \in BOOLEAN, kw \in kws :
          CreateResponseCalled(ResponseCall(rclass, piggy_backed, confirmable, kw))
    /\ pc' = "create_response"
    /\ packed' = << >>
    /\ UNCHANGED <<msg, transmission, ret>>

ToPackedReturns(r) ==
    /\ packed' = r.v
    /\ Returns(r)

\* m.to_packed()
ToPacked ==
    /\ pc = "__init__"
    /\ ToPackedReturns(to_packed(msg))
    /\ pc' = "to_packed"
    /\ UNCHANGED <<msg, reply, transmission, function>>

\* a datagram of the given set arrives
Receive(buffers) ==
    /\ pc = "start"
    /\ \E data \in buffers : packed' = data
    /\ pc' = "received"
    /\ UNCHANGED <<msg, result, reply, transmission, function>>

FromPackedReturns(r) ==
    /\ reply' = r.m
    /\ result' = [kind |-> r.kind, exc |-> r.exc, diag |-> r.diag, dkw |-> r.dkw,
                  opt |-> NoOpt]

\* Message.from_packed(packed)
FromPacked ==
    /\ \/ pc = "received"
       \/ pc = "to_packed" /\ result.kind = "ok"
    /\ FromPackedReturns(from_packed(packed))
    /\ pc' = "from_packed"
    /\ UNCHANGED <<msg, packed, transmission, function>>

\* TransmissionParameters()
NewParameters ==
    /\ params = NoParams
    /\ params' = TransmissionParameters
    /\ result' = Outcome("ok", "", "")
    /\ pc' = "TransmissionParameters"
    /\ UNCHANGED <<msg, packed, reply, rstate, pulls, function>>

\* params.<name> = value for a primitive parameter
SetPrimitive(name, value) ==
    /\ params # NoParams
    /\ params' = [params EXCEPT ![name] = value]
    /\ result' = Outcome("ok", "", "")
    /\ pc' = "primitive"
    /\ UNCHANGED <<msg, packed, reply, rstate, pulls, function>>

RecalculateReturns(r) ==
    /\ params' = r.p
    /\ Returns(r)

\* params.recalculate_derived()
RecalculateDerived ==
    /\ params # NoParams
    /\ RecalculateReturns(recalculate_derived(params))
    /\ pc' = "recalculate_derived"
    /\ UNCHANGED <<msg, packed, reply, rstate, pulls, function>>

\* the arguments of the RetransmissionState constructor
StateCall(initial_timeout, max_retransmissions, tp) ==
    [fn |-> "RetransmissionState", initial_timeout |-> initial_timeout,
     max_retransmissions |-> max_retransmissions, transmission_parameters |-> tp]

StateConstructed(c, r) ==
    /\ call' = c
    /\ rstate' = r.rs
    /\ Returns(r)

\* RetransmissionState(initial_timeout, max_retransmissions) and
\* params.make_bebo(initial_timeout, max_retransmissions), for arguments of the
\* given sets
NewRetransmissionState(timeouts, retransmissions) ==
    /\ rstate = NoState
    /\ \E t \in timeouts, n \in retransmissions, random \in RandomValues :
          StateConstructed(StateCall(t, n, params),
                           IF params = NoParams
                           THEN RetransmissionState(t, n, NoParams, random)
                           ELSE make_bebo(params, t, n, random))
    /\ pulls' = << >>
    /\ pc' = "RetransmissionState"
    /\ UNCHANGED <<msg, packed, reply, params, ret>>

IterReturns(r) ==
    /\ rstate' = r.rs
    /\ Returns(r)

\* iter(rstate): what a for statement or list() does first
Iterate ==
    /\ rstate # NoState
    /\ IterReturns(RetransmissionState__iter__(rstate))
    /\ pc' = "__iter__"
    /\ UNCHANGED <<msg, packed, reply, params, pulls, function>>

NextReturns(r) ==
    /\ rstate' = r.rs
    /\ pulls' = IF r.ok THEN Append(pulls, r.rv[1]) ELSE pulls
    /\ Returns(r)

\* rstate.next(): one pull
NextTimeout ==
    /\ rstate # NoState
    /\ NextReturns(next(rstate))
    /\ pc' = "next"
    /\ UNCHANGED <<msg, packed, reply, params, function>>

\* the state before a call of a function of coapy/option.py, for a call of
\* the given set
InitCall(calls) ==
    /\ pc = "start"
    /\ msg = NoMsg
    /\ packed = << >>
    /\ result = NoResult
    /\ reply = NoMsg
    /\ params = NoParams
    /\ rstate = NoState
    /\ pulls = << >>
    /\ call \in calls
    /\ ret = NoRet

\* a call of a function: what it returns or raises, and the position after it
Called(fn, r) ==
    /\ ret' = r
    /\ pc' = fn
    /\ UNCHANGED <<msg, packed, result, reply, transmission>>

\* _optionint_helper.option_encoding(value)
OptionEncoding ==
    /\ pc = "start"
    /\ call.fn = "option_encoding"
    /\ Called("option_encoding", option_encoding(call.value))
    /\ call' = [call EXCEPT !.ov = option_encoding(call.value).ov,
                            !.ovx = option_encoding(call.value).ovx]

\* _optionint_helper.option_decoding(ov, ovx + trailing) for the pair
\* option_encoding returned and trailing octets of the given set
OptionDecodingOfEncoded(trailers) ==
    /\ pc = "option_encoding"
    /\ ret.ok
    /\ \E trailing \in trailers :
          /\ call' = [call EXCEPT !.trailing = trailing]
          /\ Called("option_decoding(option_encoding)",
                    option_decoding(call.ov, call.ovx \o trailing))

\* _optionint_helper.option_decoding(ov, data)
OptionDecoding ==
    /\ pc = "start"
    /\ call.fn = "option_decoding"
    /\ Called("option_decoding", option_decoding(call.ov, call.ovx \o call.trailing))
    /\ UNCHANGED call

\* format_uint(max_length).to_packed(value)
UintToPacked ==
    /\ pc = "start"
    /\ call.fn = "to_packed"
    /\ Called("format_uint.to_packed",
              format_to_packed(format_uint(call.max_length), <<call.value>>))
    /\ UNCHANGED call

\* format_uint(max_length).from_packed(packed) for what to_packed returned
UintFromPackedOfPacked ==
    /\ pc = "format_uint.to_packed"
    /\ ret.ok
    /\ call' = [call EXCEPT !.packed = ret.v]
    /\ Called("format_uint.from_packed(to_packed)",
              format_from_packed(format_uint(call.max_length), ret.v))

\* format_uint(max_length).from_packed(packed)
UintFromPacked ==
    /\ pc = "start"
    /\ call.fn = "from_packed"
    /\ Called("format_uint.from_packed",
              format_from_packed(format_uint(call.max_length), call.packed))
    /\ UNCHANGED call

\* format_uint(max_length).to_packed(value) for what from_packed returned
UintToPackedOfUnpacked ==
    /\ pc = "format_uint.from_packed"
    /\ ret.ok
    /\ call' = [call EXCEPT !.value = ret.v[1]]
    /\ Called("format_uint.to_packed(from_packed)",
              format_to_packed(format_uint(call.max_length), ret.v))

\* encode_options(options, is_request)
EncodeOptions ==
    /\ pc = "start"
    /\ call.fn = "encode_options"
    /\ Called("encode_options", encode_options(call.options, call.is_request))
    /\ UNCHANGED call

\* option_number in the loop of decode_options: the number of the option
\* appended last, 0 before the first
LastNumber(options) == IF options = << >> THEN 0 ELSE options[Len(options)].number

\* decode_options(data, is_request) up to the while loop
DecodeOptionsCalled ==
    /\ pc = "start"
    /\ call.fn = "decode_options"
    /\ Called("decode_options:while", DecodeLoop(FALSE, << >>, call.data))
    /\ UNCHANGED call

\* the test of the loop of decode_options and, if it holds, one pass
DecodeOptionsPass ==
    /\ pc = "decode_options:while"
    /\ ret' = decode_iteration(ret.remainder, LastNumber(ret.options), ret.options)
    /\ pc' = IF ret'.done THEN "decode_options" ELSE "decode_options:while"
    /\ UNCHANGED <<msg, packed, result, reply, transmission, call>>

\* decode_options(data, is_request) for the octets encode_options returned
DecodeOptionsOfEncoded ==
    /\ pc = "encode_options"
    /\ ret.ok
    /\ packed' = ret.v
    /\ ret' = decode_options(ret.v, call.is_request)
    /\ pc' = "decode_options(encode_options)"
    /\ UNCHANGED <<msg, result, reply, transmission, call>>

Init ==
    /\ pc = "start"
    /\ msg = NoMsg
    /\ packed = << >>
    /\ result = NoResult
    /\ reply = NoMsg
    /\ params = NoParams
    /\ rstate = NoState
    /\ pulls = << >>
    /\ call = NoCall
    /\ ret = NoRet

-----------------------------------------------------------------------------
(* Spec: construction of a message and assignments to its attributes *)

TypeFlags == { <<TRUE, FALSE, FALSE>>, <<FALSE, TRUE, FALSE>>,
               <<FALSE, FALSE, TRUE>>, <<FALSE, FALSE, FALSE>> }

LifeOptionLists == SeqsUpTo({ Opt(11, <<97>>) }, MaxOpts)
LifeCodes == { <<0, 0>>, <<0, 1>> }
LifeIDs == { 1 }
LifeTokens == { Bytes(<< >>), Bytes(Token8) }
LifePayloads == { None, Some(Bytes(<<1>>)) }

LifeKw == { Kw(f, c, i, t, o, p) :
              f \in Flags, c \in {None} \cup LifeCodes,
              i \in {None} \cup { Some(x) : x \in LifeIDs },
              t \in {None} \cup { Some(x) : x \in LifeTokens \cup {Bytes(Token9)} },
              o \in {None} \cup { Some(x) : x \in LifeOptionLists },
              p \in LifePayloads \cup {Some(Bytes(<< >>))} }

Next ==
    \/ Construct({"Message", "Request"}, LifeKw)
    \/ \E code \in LifeCodes \cup {<<8, 0>>} : SetCode(code)
    \/ \E id \in LifeIDs \cup {65536} : SetMessageID(id)
    \/ \E token \in LifeTokens \cup {Bytes(Token9), NotBytes} : SetToken(token)
    \/ \E options \in LifeOptionLists : SetOptions(options)
    \/ \E payload \in LifePayloads \cup {Some(Bytes(<< >>)), Some(NotBytes)} :
          SetPayload(payload)
    \/ Validate

Spec == Init /\ [][Next]_vars

-----------------------------------------------------------------------------
(* SpecReply: endpoints and message-layer replies *)

ReplyKwInputs == { Kw(f, c, i, t, None, None) :
                     f \in TypeFlags, c \in {None, <<0, 1>>},
                     i \in {None, Some(1), Some(65535)},
                     t \in {None, Some(Bytes(Token8))} }

NextReply ==
    \/ Construct({"Message", "Request"}, ReplyKwInputs)
    \/ \E ep \in {None} \cup { Some(e) : e \in Endpoints } : SetSourceEndpoint(ep)
    \/ \E ep \in {None} \cup { Some(e) : e \in Endpoints } : SetDestinationEndpoint(ep)
    \/ \E reset \in BOOLEAN : CreateReply(reset)

SpecReply == Init /\ [][NextReply]_vars

-----------------------------------------------------------------------------
(* SpecResponse: responses derived from a request *)

RequestKwInputs == { Kw(<<c, FALSE, FALSE>>, <<0, 1>>, i, t, None, None) :
                       c \in BOOLEAN, i \in {None, Some(1)},
                       t \in {None, Some(Bytes(Token8))} }

ResponseClasses == {"Message", "Request", "Response", "SuccessResponse", "Class3Response"}

\* the caller's keywords: the type flags reset and acknowledgement, a code, a
\* message ID and a token of its own
ResponseKwInputs ==
    { Kw(<<FALSE, a, r>>, <<2, 5>>, i, None, None, None) :
        a \in BOOLEAN, r \in BOOLEAN, i \in {None, Some(7)} }
    \cup { Kw(<<FALSE, FALSE, TRUE>>, None, Some(7), Some(Bytes(<<9>>)), None,
             Some(Bytes(<<1>>))) }

NextResponse ==
    \/ Construct({"Request"}, RequestKwInputs)
    \/ \E ep \in {None} \cup { Some(e) : e \in Endpoints } : SetSourceEndpoint(ep)
    \/ \E ep \in {None} \cup { Some(e) : e \in Endpoints } : SetDestinationEndpoint(ep)
    \/ CreateResponse(ResponseClasses, ResponseKwInputs)

SpecResponse == Init /\ [][NextResponse]_vars

-----------------------------------------------------------------------------
(* SpecParameters: a TransmissionParameters instance and its derived values *)

\* assignments to the primitive parameters: name and value
PrimitiveInputs ==
    { <<"ACK_TIMEOUT", v>> : v \in {Seconds(2), Seconds(3)} }
    \cup { <<"ACK_RANDOM_FACTOR", v>> : v \in {4, 6} }
    \cup { <<"MAX_RETRANSMIT", v>> : v \in {-1, 0, 4, 5} }
    \cup { <<"NSTART", v>> : v \in {1, 2} }
    \cup { <<"MAX_LATENCY", v>> : v \in {Seconds(50), Seconds(100)} }
    \cup { <<"PROCESSING_DELAY", v>> : v \in {Seconds(1), Seconds(2)} }

NextParameters ==
    \/ NewParameters
    \/ \E a \in PrimitiveInputs : SetPrimitive(a[1], a[2])
    \/ RecalculateDerived

SpecParameters == Init /\ [][NextParameters]_vars

-----------------------------------------------------------------------------
(* SpecRetransmission: a retransmission schedule and its consumer *)

\* the largest max_retransmissions a schedule is built with
MaxRetransmissions == 4

\* initial timeouts: none given, 0.25, 1 and 3 seconds
TimeoutInputs == { None, Some(1), Some(Seconds(1)), Some(Seconds(3)) }
RetransmissionInputs == { None, Some(-1) } \cup { Some(n) : n \in 0..MaxRetransmissions }

NextRetransmission ==
    \/ NewParameters
    \/ NewRetransmissionState(TimeoutInputs, RetransmissionInputs)
    \/ Iterate
    \/ NextTimeout

SpecRetransmission == Init /\ [][NextRetransmission]_vars

-----------------------------------------------------------------------------
(* SpecNibble: the delta and length coding of the option header *)

\* the largest integer the nibble coding holds: 269 + 0xFFFF
LargestOptionInt == 269 + 65535

NibbleCall(fn, value, ov, ovx, trailing) ==
    [fn |-> fn, value |-> value, ov |-> ov, ovx |-> ovx, trailing |-> trailing]

\* every integer up to the largest, and one on each side
EncodingCalls(largest) ==
    { NibbleCall("option_encoding", v, 0, << >>, << >>) : v \in -1..(largest + 1) }

\* every nibble, with no, one and two octets following
DecodingCalls ==
    { NibbleCall("option_decoding", 0, ov, << >>, d) :
        ov \in 0..15, d \in { << >>, <<7>>, <<1, 0>>, <<255, 255, 9>> } }

TrailingOctets == { << >>, <<255, 7>> }

NextNibble ==
    \/ OptionEncoding
    \/ OptionDecodingOfEncoded(TrailingOctets)
    \/ OptionDecoding

SpecNibble ==
    InitCall(EncodingCalls(LargestOptionInt) \cup DecodingCalls) /\ [][NextNibble]_vars

-----------------------------------------------------------------------------
(* SpecUint: the unsigned integer format *)

\* every value of a format of at most 2 octets and one more, and the values
\* around the limits of a format of 3 octets
PackCalls(octets) ==
    [fn : {"to_packed"}, max_length : 0..1, value : 0..256, packed : {<< >>}]
    \cup [fn : {"to_packed"}, max_length : {2}, value : 0..(256 * Cardinality(octets)),
          packed : {<< >>}]
    \cup [fn : {"to_packed"}, max_length : {3},
          value : {0, 1, 255, 256, 65535, 65536, 16777215, 16777216}, packed : {<< >>}]

\* every octet string of a format of 2 octets, strings of up to 2 octets for
\* the shorter formats, and strings of a format of 3 octets with and without
\* leading zero octets
UnpackCalls(octets) ==
    [fn : {"from_packed"}, max_length : {2}, value : {0}, packed : SeqsUpTo(octets, 2)]
    \cup [fn : {"from_packed"}, max_length : 0..1, value : {0},
          packed : SeqsUpTo({0, 1, 255}, 2)]
    \cup [fn : {"from_packed"}, max_length : {3}, value : {0},
          packed : { <<0, 0, 0>>, <<0, 0, 1>>, <<0, 1, 0>>, <<1, 0, 0>>, <<255, 255, 255>>,
                     <<0, 0, 0, 1>> }]

NextUint ==
    \/ UintToPacked
    \/ UintFromPackedOfPacked
    \/ UintFromPacked
    \/ UintToPackedOfUnpacked

SpecUint == InitCall(PackCalls(0..255) \cup UnpackCalls(0..255)) /\ [][NextUint]_vars

-----------------------------------------------------------------------------
(* SpecEncode: encode_options for a request and for a response *)

Value13 == <<1, 2, 3, 4, 5, 6, 7, 8, 9, 10, 11, 12, 13>>

\* an instance of a class of the application
ApplicationOpt(number, value) ==
    OptionFromValue(CHOOSE c \in ApplicationOptionClasses : c.number = number, FALSE, value).v

\* Uri-Host and Content-Format (at most once), Uri-Path with two values and
\* Location-Path (repeatable in one role, not allowed in the other), Max-Age
\* (response only), unknown options 0, 300 and 65535 (the last with a value of
\* 13 octets), and the application's option 0
EncodeOptionPool ==
    { Opt(3, <<97>>), Opt(12, <<0>>), Opt(11, <<97>>), Opt(11, <<98>>), Opt(8, <<98>>),
      Opt(14, <<1>>), Unknown(0, << >>), Unknown(300, <<1>>), Unknown(65535, Value13),
      ApplicationOpt(0, <<1>>) }

EncodeCall(options, is_request) ==
    [fn |-> "encode_options", options |-> options, is_request |-> is_request]

\* a program holds instances of UnknownOption for a number or a class
\* registered for it, never both
EncodeCalls ==
    { EncodeCall(o, r) :
        o \in { l \in SeqsUpTo(EncodeOptionPool, MaxOpts) :
                  \A i, j \in DOMAIN l :
                     l[i].number = l[j].number => l[i].unrecognized = l[j].unrecognized },
        r \in BOOLEAN }

NextEncode ==
    \/ EncodeOptions
    \/ DecodeOptionsOfEncoded

SpecEncode == InitCall(EncodeCalls) /\ [][NextEncode]_vars

-----------------------------------------------------------------------------
(* SpecDecode: decode_options on octets from the wire *)

MaxData == 4

\* option headers: number 0 without value (00) and with one octet (01),
\* Uri-Host without value (30), Uri-Path with one octet (B1), the extended
\* forms of the length (0D, 0E) and of the delta (D0, E0), the nibble 15
\* (0F, F0), the payload marker (FF) and the letter 'a'
DecodeOctets == { 0, 1, 48, 177, 13, 14, 208, 224, 15, 240, 255, 97 }

\* every run of these octets up to the bound, an option with a value of 13
\* octets, and an option number beyond 65535
DecodeBuffers(octets, n) ==
    SeqsUpTo(octets, n)
    \cup { <<13, 0>> \o Value13, <<13, 0>> \o Value13 \o <<255, 1>>,
           <<224, 255, 255>>, <<224, 255, 255, 1, 97>> }

NextDecode ==
    \/ DecodeOptionsCalled
    \/ DecodeOptionsPass

SpecDecode ==
    InitCall([fn : {"decode_options"}, data : DecodeBuffers(DecodeOctets, MaxData)])
    /\ [][NextDecode]_vars

-----------------------------------------------------------------------------
(* SpecRegister: registrations made after the modules are loaded *)

\* the three registries once message.py and option.py are loaded
LoadedRegistries ==
    [codes |-> CodeRegistries.codes, classes |-> CodeRegistries.classes,
     options |-> _OptionRegistry]

InitRegister ==
    /\ pc = "start"
    /\ msg = NoMsg
    /\ packed = << >>
    /\ result = NoResult
    /\ reply = NoMsg
    /\ params = NoParams
    /\ rstate = NoState
    /\ pulls = << >>
    /\ call = NoCall
    /\ ret = LoadedRegistries

\* a registration call: its outcome and the registries after it; the call
\* keeps the registries it found
Registration(c, r) ==
    /\ call' = [c EXCEPT !.before = ret]
    /\ ret' = r.reg
    /\ result' = Outcome(IF r.ok THEN "ok" ELSE "raise", r.exc, "")
    /\ pc' = c.fn
    /\ UNCHANGED <<msg, packed, reply, transmission>>

\* cls.RegisterCode(code, name)
RegisterCodeCalled(classes, codes) ==
    \E cls \in classes, code \in codes :
        Registration([fn |-> "RegisterCode", cls |-> cls, code |-> code, before |-> ret],
                     RegisterCode(ret, cls, code, "name"))

\* cls.RegisterClassCode(clazz)
RegisterClassCodeCalled(classes, clazzes) ==
    \E cls \in classes, clazz \in clazzes :
        Registration([fn |-> "RegisterClassCode", cls |-> cls, clazz |-> clazz, before |-> ret],
                     [ok |-> TRUE, exc |-> "", reg |-> RegisterClassCode(ret, cls, clazz)])

\* _register_option(option_class), as the definition of an option class calls it
RegisterOptionCalled(numbers) ==
    \E number \in numbers :
        LET option_class == OptionDef("AppOption", number, "True", "True", format_opaque(8, 0))
            r == _register_option(ret.options, option_class)
        IN  Registration([fn |-> "_register_option", option_class |-> option_class,
                          before |-> ret],
                         [r EXCEPT !.reg = [ret EXCEPT !.options = r.reg]])

\* the classes that register: Message without a code class, Request (class
\* 0) and Class3Response (class 3)
RegisterClasses == {"Message", "Request", "Class3Response"}
\* GET, which is registered, and three codes that are not
RegisterCodes == { <<0, 1>>, <<0, 5>>, <<1, 0>>, <<3, 1>> }
\* a class without a constructor and one with
RegisterClazzes == { 1, 3 }
\* Uri-Path, which is registered, two free numbers, and two out of range
RegisterNumbers == { -1, 9, 11, 65535, 65536 }

NextRegister ==
    \/ RegisterCodeCalled(RegisterClasses, RegisterCodes)
    \/ RegisterClassCodeCalled(RegisterClasses, RegisterClazzes)
    \/ RegisterOptionCalled(RegisterNumbers)

SpecRegister == InitRegister /\ [][NextRegister]_vars

-----------------------------------------------------------------------------
(* SpecValidate: validate applied to constructed messages *)

ValidateClasses == {"Message", "Request", "Response", "SuccessResponse", "Class3Response"}
ValidateCodes == { None, <<0, 0>>, <<0, 1>>, <<1, 0>>, <<2, 5>>, <<3, 0>> }

ValidateOptionPool ==
    { Opt(35, <<112>>), Opt(3, <<104>>), Opt(7, <<1>>), Opt(11, <<97>>), Opt(15, <<113>>),
      Opt(14, <<1>>), Unknown(9, <<1>>), Unknown(10, << >>), Unknown(28, << >>) }

ValidateKw ==
    { Kw(f, c, Some(1), Some(t), Some(o), p) :
        f \in TypeFlags, c \in ValidateCodes, t \in { Bytes(<< >>), Bytes(<<1>>) },
        o \in SeqsUpTo({ Opt(11, <<97>>) }, 1), p \in LifePayloads }
    \cup
    { Kw(f, c, Some(1), None, Some(o), None) :
        f \in TypeFlags, c \in ValidateCodes, o \in SeqsUpTo(ValidateOptionPool, MaxOpts) }

NextValidate ==
    \/ Construct(ValidateClasses, ValidateKw)
    \/ Validate

SpecValidate == Init /\ [][NextValidate]_vars

-----------------------------------------------------------------------------
(* SpecCodec: to_packed and from_packed *)

CodecCodes == { None, <<0, 0>>, <<0, 1>>, <<0, 5>>, <<1, 0>>, <<2, 5>>, <<3, 1>>, <<7, 31>> }
CodecIDs == { None, Some(258), Some(65535) }
CodecTokens == { Bytes(<< >>), Bytes(<<170>>), Bytes(Token8) }
CodecPayloads == { None, Some(Bytes(<< >>)), Some(Bytes(<<0>>)), Some(Bytes(<<255, 1>>)) }

CodecOptionPool ==
    { Opt(3, <<97>>), Opt(11, <<97>>), Opt(11, <<98, 233>>), Opt(7, <<256>>), Opt(12, <<0>>),
      Opt(14, <<1>>), Unknown(0, << >>), Unknown(300, <<1>>), Unknown(65535, Value13) }

CodecKw ==
    { Kw(f, c, i, Some(t), Some(o), p) :
        f \in TypeFlags, c \in CodecCodes, i \in CodecIDs, t \in CodecTokens,
        o \in SeqsUpTo({ Opt(11, <<97>>) }, 1), p \in CodecPayloads }
    \cup
    { Kw(<<TRUE, FALSE, FALSE>>, c, Some(258), Some(Bytes(<<170>>)), Some(o), p) :
        c \in { <<0, 1>>, <<2, 5>> }, o \in SeqsUpTo(CodecOptionPool, MaxOpts),
        p \in { None, Some(Bytes(<<255, 1>>)) } }

\* first octets: version, type and TKL
FirstOctets == { 0, 64, 72, 73, 95, 97, 112, 128 }
\* code octets: 0.00, 0.01, 0.05, 1.00, 2.05, 2.31, 3.01, 4.00, 4.31, 5.00, 5.31,
\* 6.00, 7.31
CodeOctets == { 0, 1, 5, 32, 69, 95, 97, 128, 159, 160, 191, 192, 255 }
\* octets after the header: option headers 0x00, 0x30, 0xB1, 0xE0, 0xF0, the
\* payload marker 0xFF and the letter 'a'
BodyOctets == { 0, 48, 177, 224, 240, 255, 97 }

WireHeaders == { <<f, c, 1, 2>> : f \in FirstOctets, c \in CodeOctets }

\* the headers followed by every run of octets up to the bound: a
\* confirmable GET without token, an acknowledgement 2.05 with a TKL of 1
FullHeaders == { <<64, 1, 1, 2>>, <<97, 69, 1, 2>> }

WireBuffers ==
    { Take(h, n) : h \in WireHeaders, n \in 0..3 }
    \cup { h \o b : h \in WireHeaders, b \in SeqsUpTo(BodyOctets, 1) }
    \cup { h \o b : h \in FullHeaders, b \in SeqsUpTo(BodyOctets, MaxBody) }
    \cup { h \o Token8 \o b : h \in { w \in WireHeaders : w[1] \in {72, 73} },
                              b \in SeqsUpTo(BodyOctets, 1) }

NextCodec ==
    \/ Construct({"Message", "Request", "SuccessResponse"}, CodecKw)
    \/ \E token \in CodecTokens \cup {Bytes(Token9), NotBytes} : SetToken(token)
    \/ ToPacked
    \/ Receive(WireBuffers)
    \/ FromPacked

SpecCodec == Init /\ [][NextCodec]_vars

-----------------------------------------------------------------------------
(* Properties of validate: checked under SpecValidate *)

ValidateDone == pc = "validate"

\* the diagnostics of the code checks of validate
CodeDiagnostics ==
    { CODE_UNDEFINED, EMPTY_MESSAGE_NOT_EMPTY, CODE_TYPE_CONFLICT, CODE_INSTANCE_CONFLICT }

IsBare(m) == m.token = << >> /\ m.options = << >> /\ m.payload = None

\* the condition the specification gives for CODE_TYPE_CONFLICT
TypeConflictExpected(m) ==
    \/ m.type = Type_RST
    \/ m.type = Type_ACK /\ ~isinstance(m, "Response")
    \/ m.type \in {Type_CON, Type_NON}
       /\ ~isinstance(m, "Request") /\ ~isinstance(m, "Response")

HasOptionNumbered(options, number) ==
    \E i \in DOMAIN options : ~options[i].unrecognized /\ options[i].number = number

\* C8: in every validate step on a Request that passes the code checks,
\* validate raises PROXY_URI_CONFLICT exactly when the options hold a
\* Proxy-Uri (35) together with a Uri-Host (3), Uri-Port (7), Uri-Path (11) or
\* Uri-Query (15); on a message that is not a Request it never raises
\* PROXY_URI_CONFLICT.
C8_ProxyUriConflict ==
    [][ValidateDone' =>
         /\ (isinstance(msg, "Request") /\ result'.diag \notin CodeDiagnostics) =>
               ((result'.kind = "raise" /\ result'.diag = PROXY_URI_CONFLICT)
                <=> (/\ HasOptionNumbered(msg.options, 35)
                     /\ \E n \in {3, 7, 11, 15} : HasOptionNumbered(msg.options, n)))
         /\ ~isinstance(msg, "Request") => result'.diag # PROXY_URI_CONFLICT]_vars

\* a GET with Proxy-Uri and Uri-Query was refused
C8_Witness ==
    /\ ValidateDone
    /\ msg.cls = "Request" /\ msg.code = <<0, 1>> /\ msg.type = Type_CON
    /\ HasOptionNumbered(msg.options, 35) /\ HasOptionNumbered(msg.options, 15)
    /\ result.diag = PROXY_URI_CONFLICT

\* the diagnostics of the tests validate makes before it looks at the
\* unrecognized options
EarlierDiagnostics == CodeDiagnostics \cup { PROXY_URI_CONFLICT }

\* the unrecognized options with an odd number that the message holds
CriticalUnrecognized(m) ==
    { i \in DOMAIN m.options : m.options[i].unrecognized /\ m.options[i].number % 2 = 1 }

\* C18: when validate has passed the tests on the code, the type and
\* Proxy-Uri, it raises UNRECOGNIZED_CRITICAL_OPTION, reporting such an
\* option, exactly when an unrecognized option with an odd number remains in
\* the message; otherwise it returns, whatever unrecognized options with an
\* even number the message holds, unsafe and no-cache-key ones included.
C18_UnrecognizedOptions ==
    (ValidateDone /\ result.diag \notin EarlierDiagnostics) =>
        IF CriticalUnrecognized(msg) # {}
        THEN /\ result.kind = "raise" /\ result.exc = "MessageValidationError"
             /\ result.diag = UNRECOGNIZED_CRITICAL_OPTION
             /\ \E i \in CriticalUnrecognized(msg) : result.opt = msg.options[i]
        ELSE result.kind = "ok"

\* a GET with the unknown options 9 and 10 was refused because of 9
C18_Witness ==
    /\ ValidateDone
    /\ msg.cls = "Request" /\ msg.code = <<0, 1>> /\ msg.type = Type_CON
    /\ msg.options = <<Unknown(9, <<1>>), Unknown(10, << >>)>>
    /\ result.diag = UNRECOGNIZED_CRITICAL_OPTION
    /\ result.opt = Unknown(9, <<1>>)

\* a GET with the unknown options 10 (unsafe) and 28 (no cache key) passed
C18_WitnessEven ==
    /\ ValidateDone
    /\ msg.cls = "Request" /\ msg.code = <<0, 1>> /\ msg.type = Type_CON
    /\ msg.options = <<Unknown(10, << >>), Unknown(28, << >>)>>
    /\ is_unsafe_option(10) /\ is_no_cache_key_option(28)
    /\ result.kind = "ok"

-----------------------------------------------------------------------------
(* Properties of create_reply: checked under SpecReply *)

CreateReplyDone == pc \in {"create_reply(reset=True)", "create_reply(reset=False)"}
ResetGiven == pc = "create_reply(reset=True)"

\* C9: create_reply returns exactly for a CON original and for a NON original
\* with reset=True; for an ACK or RST original it raises INVALID_TYPE
\* whatever reset is, for a NON original with reset=False it raises
\* ACK_FOR_NON; a call that raises leaves no reply, and no call changes the
\* original.
C9_CreateReplyOutcome ==
    /\ [](CreateReplyDone =>
            /\ (result.kind = "ok")
               <=> (msg.type = Type_CON \/ (msg.type = Type_NON /\ ResetGiven))
            /\ msg.type \in {Type_ACK, Type_RST} =>
                  (result.exc = "MessageReplyError" /\ result.diag = INVALID_TYPE)
            /\ (msg.type = Type_NON /\ ~ResetGiven) =>
                  (result.exc = "MessageReplyError" /\ result.diag = ACK_FOR_NON)
            /\ result.kind # "ok" => reply = NoMsg)
    /\ [][CreateReplyDone' => msg' = msg]_vars

\* a non-reset reply to a NON message was refused
C9_Witness ==
    /\ CreateReplyDone /\ ~ResetGiven
    /\ msg.type = Type_NON
    /\ result.diag = ACK_FOR_NON

\* C10: the message a successful create_reply returns is a Message of type
\* ACK (reset=False) or RST (reset=True) with code Empty, the original's
\* message ID, an empty token, no options and no payload, its source
\* endpoint the original's destination endpoint and its destination endpoint
\* the original's source endpoint (None where the original's is None); the
\* original is as it was before the call.
C10_ReplyContents ==
    /\ []((CreateReplyDone /\ result.kind = "ok") =>
            /\ reply.cls = "Message"
            /\ reply.type = (IF ResetGiven THEN Type_RST ELSE Type_ACK)
            /\ reply.code = Empty
            /\ reply.messageID = msg.messageID
            /\ IsBare(reply)
            /\ reply.source_endpoint = msg.destination_endpoint
            /\ reply.destination_endpoint = msg.source_endpoint)
    /\ [][(CreateReplyDone' /\ result'.kind = "ok") => msg' = msg]_vars

\* a NON message with ID 65535 received from ep1, no destination bound, was
\* answered with a reset
C10_Witness ==
    /\ CreateReplyDone /\ ResetGiven /\ result.kind = "ok"
    /\ msg.type = Type_NON /\ msg.messageID = Some(65535)
    /\ msg.source_endpoint = Some("ep1") /\ msg.destination_endpoint = None
    /\ reply.type = Type_RST /\ reply.destination_endpoint = Some("ep1")

\* an assignment to source_endpoint or destination_endpoint was made
EndpointAssigned == pc \in {"source_endpoint", "destination_endpoint"}

\* the endpoint attribute that was assigned, as it is now
EndpointNow ==
    IF pc = "source_endpoint" THEN msg.source_endpoint ELSE msg.destination_endpoint

\* C13 as stated: an assignment of None, or of the endpoint the attribute
\* holds, returns and leaves the attribute as it was, bound or not; the first
\* endpoint assigned to an unbound attribute is kept; an assignment of another
\* endpoint to a bound attribute raises and leaves it as it was.
C13_WriteOnceEndpoints ==
    EndpointAssigned =>
        IF call.ep = None \/ call.ep = call.before
        THEN result.kind = "ok" /\ EndpointNow = call.before
        ELSE IF call.before = None
        THEN result.kind = "ok" /\ EndpointNow = call.ep
        ELSE result.kind = "raise" /\ EndpointNow = call.before

CreateResponseDone == pc = "create_response"

\* C11: a create_response call with piggy_backed true returns a message of
\* type ACK with the request's message ID; with piggy_backed false one of type
\* CON when confirmable is true and NON otherwise, with the message ID of the
\* caller's keywords (None without one) and not the request's; in both cases
\* the token is the request's, the source and destination endpoints are the
\* request's destination and source, and the caller's reset and
\* acknowledgement keywords do not show in the type; the call raises when
\* rclass is not a subclass of Response.
C11_CreateResponse ==
    CreateResponseDone =>
        /\ (result.kind = "ok" /\ call.piggy_backed) =>
              /\ reply.type = Type_ACK
              /\ reply.messageID = msg.messageID
        /\ (result.kind = "ok" /\ ~call.piggy_backed) =>
              /\ reply.type = (IF call.confirmable THEN Type_CON ELSE Type_NON)
              /\ reply.messageID = call.kw.messageID
        /\ result.kind = "ok" =>
              /\ reply.cls = call.rclass
              /\ reply.token = msg.token
              /\ reply.source_endpoint = msg.destination_endpoint
              /\ reply.destination_endpoint = msg.source_endpoint
        /\ ~issubclass(call.rclass, "Response") =>
              (result.kind = "raise" /\ reply = NoMsg)

\* create_response accepts the class-3 subtype as rclass
Class3AcceptedAsResponseType ==
    (CreateResponseDone /\ call.rclass = "Class3Response") => result.kind = "ok"

\* C30: a NON message is never acknowledged by a derivation: create_response
\* with piggy_backed true on a NON request does not return a message of type
\* ACK with the request's message ID.
C30_NonNeverAcknowledged ==
    (CreateResponseDone /\ msg.type = Type_NON /\ msg.messageID # None
     /\ call.piggy_backed /\ result.kind = "ok") =>
        ~(reply.type = Type_ACK /\ reply.messageID = msg.messageID)

\* a separate 2.05 response to a request with ID 1 and a token of 8 octets,
\* asked for with reset=True and a message ID of its own, came out
\* non-confirmable with that ID and the request's token and endpoints
C11_Witness ==
    /\ CreateResponseDone /\ result.kind = "ok"
    /\ ~call.piggy_backed /\ ~call.confirmable /\ call.kw.reset
    /\ call.rclass = "SuccessResponse" /\ call.kw.messageID = Some(7)
    /\ msg.messageID = Some(1) /\ msg.token = Token8
    /\ msg.source_endpoint = Some("ep1") /\ msg.destination_endpoint = Some("ep2")
    /\ reply.type = Type_NON /\ reply.messageID = Some(7) /\ reply.token = Token8
    /\ reply.source_endpoint = Some("ep2")

-----------------------------------------------------------------------------
(* Properties of the retransmission schedule: checked under SpecRetransmission *)

\* a schedule was built with an initial timeout and a max_retransmissions of
\* zero or more
ScheduleBuilt ==
    /\ rstate # NoState
    /\ call.initial_timeout # None
    /\ call.max_retransmissions # None
    /\ call.max_retransmissions[1] >= 0

\* the first k values of the schedule with initial timeout t
Doubling(t, k) == [i \in 1..k |-> (2 ^ (i - 1)) * t]

ScheduleFollowed(t, n) ==
    /\ Len(pulls) <= n
    /\ pulls = Doubling(t, Len(pulls))
    /\ retransmissions_remaining(rstate) = n - Len(pulls)

PullAnswered(t, n) ==
    IF Len(pulls) < n
    THEN /\ result'.kind = "ok"
         /\ pulls' = Append(pulls, (2 ^ Len(pulls)) * t)
    ELSE /\ result'.kind = "raise"
         /\ result'.exc = "StopIteration"
         /\ pulls' = pulls
         /\ rstate' = rstate

\* C12: for a schedule built with initial timeout t and max_retransmissions
\* n >= 0 the values pulled so far are t, 2t, 4t, ... in order and at most n of
\* them, and retransmissions_remaining is n minus their number; a pull gives
\* the next value while fewer than n were given and raises StopIteration from
\* then on, changing nothing; __iter__ changes nothing, so nothing starts the
\* sequence again.
C12_RetransmissionSchedule ==
    /\ [](ScheduleBuilt =>
            ScheduleFollowed(call.initial_timeout[1], call.max_retransmissions[1]))
    /\ [][(ScheduleBuilt /\ pc' = "next") =>
            PullAnswered(call.initial_timeout[1], call.max_retransmissions[1])]_vars
    /\ [][(ScheduleBuilt /\ pc' = "__iter__") =>
            (rstate' = rstate /\ pulls' = pulls)]_vars

\* RetransmissionState(3, 4) gave 3, 6, 12 and 24 seconds, and the pull after
\* them raised StopIteration
C12_Witness ==
    /\ pc = "next"
    /\ call.initial_timeout = Some(Seconds(3)) /\ call.max_retransmissions = Some(4)
    /\ pulls = <<Seconds(3), Seconds(6), Seconds(12), Seconds(24)>>
    /\ result.exc = "StopIteration"
    /\ retransmissions_remaining(rstate) = 0

-----------------------------------------------------------------------------
(* Properties of the transmission parameters: checked under SpecParameters *)

RecalculateDone == pc = "recalculate_derived" /\ result.kind = "ok"

DefaultPrimitives == \A name \in PrimitiveNames : params[name] = TransmissionParameters[name]

DerivedAsDefined ==
    /\ 4 * params.MAX_TRANSMIT_SPAN
         = params.ACK_TIMEOUT * ((2 ^ params.MAX_RETRANSMIT) - 1) * params.ACK_RANDOM_FACTOR
    /\ 4 * params.MAX_TRANSMIT_WAIT
         = params.ACK_TIMEOUT * ((2 ^ (params.MAX_RETRANSMIT + 1)) - 1)
           * params.ACK_RANDOM_FACTOR
    /\ params.MAX_RTT = (2 * params.MAX_LATENCY) + params.PROCESSING_DELAY
    /\ params.EXCHANGE_LIFETIME = params.MAX_TRANSMIT_SPAN + params.MAX_RTT
    /\ params.NON_LIFETIME = params.MAX_TRANSMIT_SPAN + params.MAX_LATENCY

ShippedDerived ==
    /\ params.MAX_TRANSMIT_SPAN = Seconds(45)
    /\ params.MAX_TRANSMIT_WAIT = Seconds(93)
    /\ params.MAX_RTT = Seconds(202)
    /\ params.EXCHANGE_LIFETIME = Seconds(247)
    /\ params.NON_LIFETIME = Seconds(145)

\* C19: after recalculate_derived the five derived parameters have the values
\* of their formulas over the primitive parameters of the instance, a second
\* recalculate_derived changes nothing, with the default primitives the
\* derived values are the shipped 45, 93, 202, 247 and 145, and
\* recalculate_derived changes no primitive parameter.
C19_RecalculateDerived ==
    /\ [](RecalculateDone =>
            /\ DerivedAsDefined
            /\ recalculate_derived(params) = ParamsReturn(params)
            /\ DefaultPrimitives => ShippedDerived)
    /\ [][pc' = "recalculate_derived" =>
            \A name \in PrimitiveNames : params'[name] = params[name]]_vars

\* with an ACK_TIMEOUT of 3 seconds, a factor of 1.0 and no retransmission the
\* span is 0 and the wait 3 seconds
C19_Witness ==
    /\ RecalculateDone
    /\ params.ACK_TIMEOUT = Seconds(3) /\ params.ACK_RANDOM_FACTOR = 4
    /\ params.MAX_RETRANSMIT = 0
    /\ params.MAX_TRANSMIT_SPAN = 0 /\ params.MAX_TRANSMIT_WAIT = Seconds(3)

-----------------------------------------------------------------------------
(* Properties of the nibble coding: checked under SpecNibble *)

\* the nibble and the extension octets the option header format gives to v
NibbleAsDefined(v, ov, ovx) ==
    /\ v <= 12 => (ov = v /\ ovx = << >>)
    /\ (13 <= v /\ v <= 268) => (ov = 13 /\ ovx = <<v - 13>>)
    /\ 269 <= v => (ov = 14 /\ ovx = <<(v - 269) \div 256, (v - 269) % 256>>)

\* C14: for every v in 0..65804 option_encoding returns the nibble v with no
\* extension for v <= 12, 13 with the one octet v-13 for 13..268 and 14 with
\* the two big-endian octets of v-269 from 269 on; option_decoding of that
\* nibble and of the extension followed by other octets returns v and exactly
\* those other octets; option_encoding never returns the nibble 15, and
\* option_decoding raises for the nibble 15.
C14_NibbleCoding ==
    /\ (pc = "option_encoding" /\ 0 <= call.value /\ call.value <= 65804) =>
          (ret.ok /\ NibbleAsDefined(call.value, ret.ov, ret.ovx))
    /\ (pc = "option_encoding" /\ ret.ok) => ret.ov \in 0..14
    /\ pc = "option_decoding(option_encoding)" =>
          /\ 0 <= call.value /\ call.value <= 65804
          /\ ret.ok /\ ret.value = call.value /\ ret.data = call.trailing
    /\ (pc = "option_decoding" /\ call.ov = 15) => (~ret.ok /\ ret.exc = "ValueError")

\* 65804, sent as the nibble 14 with FF FF, came back, and the two octets
\* behind it were left over
C14_Witness ==
    /\ pc = "option_decoding(option_encoding)"
    /\ call.value = 65804 /\ call.ov = 14 /\ call.ovx = <<255, 255>>
    /\ call.trailing = <<255, 7>>
    /\ ret.ok /\ ret.value = 65804 /\ ret.data = <<255, 7>>

-----------------------------------------------------------------------------
(* Properties of the unsigned integer format: checked under SpecUint *)

\* the big-endian value of an octet string
RECURSIVE BigEndianValue(_)
BigEndianValue(b) ==
    IF b = << >> THEN 0
    ELSE (256 * BigEndianValue(SubSeq(b, 1, Len(b) - 1))) + b[Len(b)]

\* an octet string without its leading zero octets
WithoutLeadingZeros(b) ==
    LET k == CHOOSE i \in 0..Len(b) :
                 /\ \A j \in 1..i : b[j] = 0
                 /\ (i < Len(b) => b[i + 1] # 0)
    IN  SubSeq(b, k + 1, Len(b))

\* C15: for a uint format of max length L, to_packed of v in 0..256^L-1
\* returns the shortest big-endian octet string of v (empty for 0, no leading
\* zero octet) and from_packed of it returns v; to_packed of a larger v raises
\* OptionValueLengthError; from_packed of an octet string of at most L octets
\* returns its big-endian value, leading zero octets allowed, and to_packed of
\* that value returns the string without its leading zero octets.
C15_UintCanonicalForm ==
    /\ (pc = "format_uint.to_packed" /\ call.value < 256 ^ call.max_length) =>
          /\ ret.ok
          /\ Len(ret.v) <= call.max_length
          /\ BigEndianValue(ret.v) = call.value
          /\ (call.value = 0 => ret.v = << >>)
          /\ (ret.v # << >> => ret.v[1] # 0)
    /\ (pc = "format_uint.to_packed" /\ call.value >= 256 ^ call.max_length) =>
          (~ret.ok /\ ret.exc = "OptionValueLengthError")
    /\ pc = "format_uint.from_packed(to_packed)" =>
          (ret.ok /\ ret.v = <<call.value>>)
    /\ (pc = "format_uint.from_packed" /\ Len(call.packed) <= call.max_length) =>
          (ret.ok /\ ret.v = <<BigEndianValue(call.packed)>>)
    /\ pc = "format_uint.to_packed(from_packed)" =>
          (ret.ok /\ ret.v = WithoutLeadingZeros(call.packed))

\* 256 was packed as 01 00 by a format of 2 octets and unpacked as 256
C15_Witness ==
    /\ pc = "format_uint.from_packed(to_packed)"
    /\ call.max_length = 2 /\ call.value = 256 /\ call.packed = <<1, 0>>
    /\ ret.ok /\ ret.v = <<256>>

-----------------------------------------------------------------------------
(* Properties of encode_options: checked under SpecEncode *)

\* the option is allowed in the role
ValidInRole(opt, is_request) ==
    IF is_request THEN valid_in_request(opt) ELSE valid_in_response(opt)

\* the option is allowed more than once in the role
ValidMultipleInRole(opt, is_request) ==
    IF is_request THEN valid_multiple_in_request(opt) ELSE valid_multiple_in_response(opt)

\* some option is not allowed in the role, or the number of an option allowed
\* at most once occurs more than once
CardinalityBroken(options, is_request) ==
    \E i \in DOMAIN options :
        \/ ~ValidInRole(options[i], is_request)
        \/ /\ ~ValidMultipleInRole(options[i], is_request)
           /\ \E j \in DOMAIN options : j # i /\ options[j].number = options[i].number

\* C20 as stated: encode_options raises, InvalidRequestOptionError for a
\* request and InvalidResponseOptionError for a response, exactly when some
\* option is not allowed in the role or the number of an option allowed at
\* most once occurs more than once; every other list is encoded, whatever its
\* option numbers, 0 included.
C20_EncodeCardinality ==
    pc = "encode_options" =>
        IF CardinalityBroken(call.options, call.is_request)
        THEN /\ ~ret.ok
             /\ ret.exc = (IF call.is_request THEN "InvalidRequestOptionError"
                           ELSE "InvalidResponseOptionError")
        ELSE ret.ok

\* the options with the smallest number first, options of one number in the
\* order of the list
RECURSIVE InNumberOrder(_, _)
InNumberOrder(options, numbers) ==
    IF numbers = {} THEN << >>
    ELSE SelectSeq(options,
                   LAMBDA o : o.number = (CHOOSE n \in numbers : \A k \in numbers : n <= k))
         \o InNumberOrder(options,
                          numbers \ {CHOOSE n \in numbers : \A k \in numbers : n <= k})

NumbersOf(options) == { options[i].number : i \in DOMAIN options }

\* the nibble and the extension octets of a delta or a length
NibbleOf(v) == IF v < 13 THEN v ELSE IF v < 269 THEN 13 ELSE 14
ExtensionOf(v) ==
    IF v < 13 THEN << >>
    ELSE IF v < 269 THEN <<v - 13>>
    ELSE <<(v - 269) \div 256, (v - 269) % 256>>

\* the octets of one option after an option of the number previous
OptionOctets(opt, previous) ==
    <<(NibbleOf(opt.number - previous) * 16) + NibbleOf(Len(packed_value(opt).v))>>
    \o ExtensionOf(opt.number - previous)
    \o ExtensionOf(Len(packed_value(opt).v))
    \o packed_value(opt).v

\* the octets of the options in the order given
RECURSIVE BlockOctets(_, _)
BlockOctets(options, previous) ==
    IF options = << >> THEN << >>
    ELSE OptionOctets(Head(options), previous)
         \o BlockOctets(Tail(options), Head(options).number)

\* the (number, value) pairs of the options
PairsOf(options) == [i \in DOMAIN options |-> <<options[i].number, options[i].value>>]

\* encode_options wrote the options in the order of their numbers, and
\* decode_options read the same options back
EncodedInOrder ==
    /\ pc = "encode_options" =>
          /\ ret.ok
          /\ ret.v = BlockOctets(InNumberOrder(call.options, NumbersOf(call.options)), 0)
    /\ pc = "decode_options(encode_options)" =>
          /\ ret.ok
          /\ PairsOf(ret.options)
               = PairsOf(InNumberOrder(call.options, NumbersOf(call.options)))
          /\ ret.remainder = << >>

\* C23 as stated: for every list of options permitted for the role,
\* encode_options writes the options in ascending order of their numbers,
\* options of one number in the order of the list, each as the octet
\* (delta nibble * 16 + length nibble), the extension octets of the delta,
\* those of the length and the packed value, the delta counted from the
\* number written before (0 before the first); decode_options of the octets
\* returns the same (number, value) pairs and an empty remainder.
C23_EncodingOrder ==
    ~CardinalityBroken(call.options, call.is_request) => EncodedInOrder

\* the same for the lists in which no option allowed at most once has the
\* number 0
EncodedInOrderButZero ==
    (/\ ~CardinalityBroken(call.options, call.is_request)
     /\ \A i \in DOMAIN call.options :
           call.options[i].number = 0 => ValidMultipleInRole(call.options[i], call.is_request))
        => EncodedInOrder

\* the unknown option 300 and Uri-Path b, given in this order, were written
\* as B1 62 E1 00 14 01 and read back with Uri-Path first
EncodedInOrderWitness ==
    /\ pc = "decode_options(encode_options)"
    /\ call.is_request
    /\ call.options = <<Unknown(300, <<1>>), Opt(11, <<98>>)>>
    /\ packed = <<177, 98, 14 * 16 + 1, 0, 20, 1>>
    /\ ret.ok /\ Len(ret.options) = 2

-----------------------------------------------------------------------------
(* Properties of the registries: checked under SpecRegister *)

RegistrationDone == pc \in {"RegisterCode", "RegisterClassCode", "_register_option"}

\* every key of a code registry still has its entry
EntriesKept(before, after) ==
    \A i \in DOMAIN before :
        /\ Registered(after, before[i].key)
        /\ after[Lookup(after, before[i].key)] = before[i]

\* every number of the option registry still has its class
OptionsKept(before, after) ==
    \A n \in DOMAIN before : n \in DOMAIN after /\ after[n] = before[n]

\* the key of the call was registered when the call was made
KeyTaken ==
    CASE call.fn = "RegisterCode" -> Registered(call.before.codes, call.code)
      [] call.fn = "RegisterClassCode" -> Registered(call.before.classes, call.clazz)
      [] call.fn = "_register_option" -> call.option_class.number \in DOMAIN call.before.options

\* the code of a RegisterCode call is outside the code class of the class
OutsideCodeClass ==
    /\ call.fn = "RegisterCode"
    /\ CodeClass(call.cls) # None
    /\ call.code[1] # CodeClass(call.cls)[1]

\* what the claim says of one registration
AppendOnly ==
    /\ EntriesKept(call.before.codes, ret.codes)
    /\ EntriesKept(call.before.classes, ret.classes)
    /\ OptionsKept(call.before.options, ret.options)
    /\ KeyTaken => (result.kind = "raise" /\ ret = call.before)
    /\ OutsideCodeClass =>
          /\ result.kind = "raise"
          /\ ret.codes = call.before.codes
          /\ ret.classes = call.before.classes

\* C25: the registries are append-only: after a registration every key that
\* was registered has the entry it had, a registration of a code, a code
\* class or an option number that was registered fails and leaves the
\* registries as they were, and a RegisterCode call for a code outside the
\* code class of its class adds nothing to the two code registries.
C25_RegistriesAppendOnly == RegistrationDone => AppendOnly

\* the same for RegisterCode and _register_option alone
AppendOnlyButClassCode ==
    (RegistrationDone /\ call.fn # "RegisterClassCode") => AppendOnly

\* a RegisterClassCode call for a class that was not registered adds it
ClassCodeAddsFreeClass ==
    (RegistrationDone /\ call.fn = "RegisterClassCode" /\ ~KeyTaken) =>
        (result.kind = "ok" /\ AppendOnly /\ Registered(ret.classes, call.clazz))

-----------------------------------------------------------------------------
(* Properties of decode_options: checked under SpecDecode *)

DecodeOptionsDone == pc = "decode_options"

\* the number of extension octets of a nibble
ExtensionLength(nibble) == IF nibble = 13 THEN 1 ELSE IF nibble = 14 THEN 2 ELSE 0

\* the value of a nibble with its extension octets
FieldValue(nibble, ext) ==
    IF nibble = 13 THEN 13 + ext[1]
    ELSE IF nibble = 14 THEN 269 + (256 * ext[1]) + ext[2]
    ELSE nibble

\* the parts of the option at the front of data, whose header octet has no
\* nibble 15: the delta, the length, the octets of the header with its
\* extensions, and whether data holds every octet the header declares
FrontOption(data) ==
    [delta_at |-> 1,
     length_at |-> 1 + ExtensionLength(data[1] \div 16),
     value_at |-> 1 + ExtensionLength(data[1] \div 16) + ExtensionLength(data[1] % 16)]

FrontDelta(data) ==
    FieldValue(data[1] \div 16,
               SubSeq(data, FrontOption(data).delta_at + 1, FrontOption(data).length_at))

FrontLength(data) ==
    FieldValue(data[1] % 16,
               SubSeq(data, FrontOption(data).length_at + 1, FrontOption(data).value_at))

FrontComplete(data) ==
    /\ Len(data) >= FrontOption(data).value_at
    /\ Len(data) >= FrontOption(data).value_at + FrontLength(data)

FrontValue(data) ==
    SubSeq(data, FrontOption(data).value_at + 1, FrontOption(data).value_at + FrontLength(data))

\* reading the options of data from left to right by the format of the
\* option block: "end" at the end of the data or at a marker, "error" at a
\* header octet with a nibble 15, "truncated" when the data end inside an
\* option, "refused" when no option instance can be made of the number and
\* the value; pairs are the (number, value octets) read before
RECURSIVE ReadBlock(_, _, _)
ReadBlock(data, number, pairs) ==
    IF data = << >> \/ data[1] = 255
    THEN [kind |-> "end", pairs |-> pairs, remainder |-> data]
    ELSE IF data[1] \div 16 = 15 \/ data[1] % 16 = 15
    THEN [kind |-> "error", pairs |-> pairs, remainder |-> data]
    ELSE IF ~FrontComplete(data)
    THEN [kind |-> "truncated", pairs |-> pairs, remainder |-> data]
    ELSE IF ~decode_instance(number + FrontDelta(data), FrontValue(data)).ok
    THEN [kind |-> "refused", pairs |-> pairs, remainder |-> data]
    ELSE ReadBlock(Drop(data, FrontOption(data).value_at + FrontLength(data)),
                   number + FrontDelta(data),
                   Append(pairs, <<number + FrontDelta(data), FrontValue(data)>>))

\* the option instance is of the class registered for its number and packs
\* to the octets, or is an UnknownOption that holds the octets
BuiltFor(opt, pair) ==
    /\ opt.number = pair[1]
    /\ opt.unrecognized <=> pair[1] \notin DOMAIN _OptionRegistry
    /\ opt.unrecognized => opt.value = pair[2]
    /\ ~opt.unrecognized =>
          opt = OptionFromPacked(_OptionRegistry[pair[1]], pair[2]).v

IsSuffix(s, t) == Len(s) <= Len(t) /\ s = SubSeq(t, Len(t) - Len(s) + 1, Len(t))

\* C28: every pass of the loop of decode_options ends the loop or leaves
\* less data than it found, the data left being an end of the input; so
\* the loop ends on every input, with no more options than the input has
\* octets and a remainder that is an end of the input.
C28_DecodeTerminates ==
    /\ [][(pc = "decode_options:while") =>
             (\/ pc' = "decode_options"
              \/ /\ Len(ret'.remainder) < Len(ret.remainder)
                 /\ Len(ret'.options) = Len(ret.options) + 1)]_vars
    /\ [](pc \in {"decode_options:while", "decode_options"} =>
             /\ Len(ret.options) + Len(ret.remainder) <= Len(call.data)
             /\ IsSuffix(ret.remainder, call.data))
    /\ [](DecodeOptionsDone =>
             /\ ret.ok = decode_options(call.data, FALSE).ok
             /\ ret.exc = decode_options(call.data, FALSE).exc
             /\ ret.options = decode_options(call.data, FALSE).options
             /\ ret.remainder = decode_options(call.data, FALSE).remainder)

\* the loop made three passes over 00 01 61 and ended with two options
C28_Witness ==
    /\ DecodeOptionsDone
    /\ call.data = <<0, 1, 97>>
    /\ ret.ok /\ Len(ret.options) = 2 /\ ret.remainder = << >>

-----------------------------------------------------------------------------
(* Properties of the codec: checked under SpecCodec *)

FromPackedDone == pc = "from_packed"

\* from_packed ran on the octets to_packed made of msg
RoundTripDone == FromPackedDone /\ msg # NoMsg

VersionField(buffer) == buffer[1] \div 64
TKLField(buffer) == buffer[1] % 16
TypeField(buffer) == (buffer[1] \div 16) % 4

\* every option of m is allowed in the role of m, and one that may not repeat
\* occurs once
OptionsPermitted(m) ==
    \A i \in DOMAIN m.options :
        IF IsRequestRole(m)
        THEN /\ valid_in_request(m.options[i])
             /\ \/ valid_multiple_in_request(m.options[i])
                \/ \A j \in DOMAIN m.options :
                      j # i => m.options[j].number # m.options[i].number
        ELSE /\ valid_in_response(m.options[i])
             /\ \/ valid_multiple_in_response(m.options[i])
                \/ \A j \in DOMAIN m.options :
                      j # i => m.options[j].number # m.options[i].number

\* the validity the round-trip statement asks of a message
ValidForRoundTrip(m) ==
    /\ m.code # None
    /\ m.messageID # None
    /\ Len(m.token) <= 8
    /\ OptionsPermitted(m)
    /\ (m.payload # None => m.payload[1] # << >>)
    /\ (m.code = Empty => IsBare(m))

IsAscending(options) ==
    \A i, j \in DOMAIN options : i < j => options[i].number <= options[j].number

\* the decoded message carries what the original carries
SameContents(m, decoded) ==
    /\ decoded.type = m.type
    /\ decoded.code = m.code
    /\ decoded.messageID = m.messageID
    /\ decoded.token = m.token
    /\ decoded.payload = m.payload
    /\ decoded.options = SortedByNumber(m.options)
    /\ IsAscending(decoded.options)

\* the class message.py registers for a code: Message for Empty, otherwise
\* the class of the code class
RegisteredSubtype(code) ==
    IF code = Empty THEN "Message"
    ELSE CASE code[1] = 0 -> "Request"
           [] code[1] = 2 -> "SuccessResponse"
           [] code[1] = 3 -> "Class3Response"
           [] code[1] = 4 -> "ClientErrorResponse"
           [] code[1] = 5 -> "ServerErrorResponse"
           [] OTHER -> "object"

FormatDiagnostics ==
    { TOKEN_TOO_LONG, EMPTY_MESSAGE_NOT_EMPTY, INVALID_OPTION, ZERO_LENGTH_PAYLOAD,
      UNRECOGNIZED_CODE_CLASS }

\* C3 as stated: for every buffer with version field 1, from_packed returns a
\* message or raises MessageFormatError with one of the five diagnostics and
\* the decoded type, code and message ID; nothing else escapes.
C3_OnlyFormatErrorsEscape ==
    (FromPackedDone /\ Len(packed) >= 1 /\ VersionField(packed) = 1) =>
        \/ result.kind = "ok" /\ reply # NoMsg
        \/ /\ result.kind = "raise"
           /\ result.exc = "MessageFormatError"
           /\ result.diag \in FormatDiagnostics
           /\ Len(packed) >= 4
           /\ result.dkw = [type |-> TypeField(packed),
                            code |-> <<packed[2] \div 32, packed[2] % 32>>,
                            messageID |-> (packed[3] * 256) + packed[4]]

C5_EmptyCodedBuffer ==
    (/\ FromPackedDone
     /\ Len(packed) >= 2 /\ VersionField(packed) = 1
     /\ TKLField(packed) <= 8 /\ packed[2] = 0) =>
        IF TKLField(packed) = 0 /\ Len(packed) = 4
        THEN /\ result.kind = "ok"
             /\ reply.code = Empty /\ reply.type = TypeField(packed) /\ IsBare(reply)
        ELSE /\ result.kind = "raise"
             /\ result.exc = "MessageFormatError"
             /\ result.diag = EMPTY_MESSAGE_NOT_EMPTY

\* the payload a message holds is absent or a byte string that is not empty
PayloadStored(m) == m.payload = None \/ m.payload[1] # << >>

\* the octets to_packed writes before the marker: header, token and options
BeforeMarker(m) ==
    4 + Len(m.token)
      + (IF m.options # << >> THEN Len(encode_options(m.options, IsRequestRole(m)).v) ELSE 0)

\* the octets p end at the options of m when m has no payload, and go on with
\* 0xFF and the payload when it has one
MarkerWritten(m, p) ==
    IF m.payload = None THEN Len(p) = BeforeMarker(m)
    ELSE /\ Len(p) > BeforeMarker(m) + 1
         /\ p[BeforeMarker(m) + 1] = 255
         /\ Drop(p, BeforeMarker(m) + 1) = m.payload[1]

\* what is left of a buffer once its header, its token and its options were
\* read
WireOptions(buffer) == decode_options(Drop(buffer, 4 + TKLField(buffer)), FALSE)

\* the buffer has a header of version 1 with a TKL of at most 8, and the
\* octets after its token are options up to the marker or to the end
OptionBlockRead(buffer) ==
    /\ Len(buffer) >= 4 /\ VersionField(buffer) = 1 /\ TKLField(buffer) <= 8
    /\ WireOptions(buffer).ok

\* the option block is followed by 0xFF and nothing else
MarkerAlone(buffer) == OptionBlockRead(buffer) /\ WireOptions(buffer).remainder = <<255>>

\* the option block is followed by 0xFF and more octets
MarkerAndPayload(buffer) ==
    /\ OptionBlockRead(buffer)
    /\ Len(WireOptions(buffer).remainder) > 1
    /\ WireOptions(buffer).remainder[1] = 255

ZeroLengthPayloadRaised ==
    /\ result.kind = "raise" /\ result.exc = "MessageFormatError"
    /\ result.diag = ZERO_LENGTH_PAYLOAD

\* what C16 says of the stored payload, of to_packed and of a decoded payload
PayloadKept ==
    /\ PayloadStored(msg) /\ PayloadStored(reply)
    /\ (pc = "to_packed" /\ result.kind = "ok") => MarkerWritten(msg, packed)
    /\ (FromPackedDone /\ MarkerAndPayload(packed)) =>
          /\ ~ZeroLengthPayloadRaised
          /\ result.kind = "ok" => reply.payload = Some(Tail(WireOptions(packed).remainder))

CodeField(buffer) == <<buffer[2] \div 32, buffer[2] % 32>>

\* a buffer from_packed has no complaint about before it looks for the
\* constructor: version 1, a TKL of at most 8, options that decode, a payload
\* after a marker, and nothing but the header when the code is Empty
WellFormedButForCode(buffer) ==
    /\ OptionBlockRead(buffer)
    /\ WireOptions(buffer).remainder = << >> \/ MarkerAndPayload(buffer)
    /\ CodeField(buffer) = Empty => (TKLField(buffer) = 0 /\ Len(buffer) = 4)

\* message.py registers the code itself
ExactlyRegistered(code) ==
    \E i \in DOMAIN ModuleRegistrations :
        ModuleRegistrations[i].op = "code" /\ ModuleRegistrations[i].code = code

\* the class message.py registers the code itself for
ExactConstructor(code) ==
    ModuleRegistrations[CHOOSE i \in DOMAIN ModuleRegistrations :
                           /\ ModuleRegistrations[i].op = "code"
                           /\ ModuleRegistrations[i].code = code].cls

\* the classes of codes that have a message class
FallbackClasses == {0, 2, 3, 4, 5}

\* the message class of a class of codes
ClassFallback(clazz) ==
    CASE clazz = 0 -> "Request"
      [] clazz = 2 -> "SuccessResponse"
      [] clazz = 3 -> "Class3Response"
      [] clazz = 4 -> "ClientErrorResponse"
      [] clazz = 5 -> "ServerErrorResponse"

\* from_packed returned a message of the class with the code
Dispatched(cls, code) == result.kind = "ok" /\ reply.cls = cls /\ reply.code = code

FirstDefect(buffer) ==
    IF TKLField(buffer) >= 9 THEN TOKEN_TOO_LONG
    ELSE IF Len(buffer) >= 2 /\ buffer[2] = 0 /\ (TKLField(buffer) # 0 \/ Len(buffer) # 4)
    THEN EMPTY_MESSAGE_NOT_EMPTY
    ELSE IF ~WireOptions(buffer).ok THEN INVALID_OPTION
    ELSE IF WireOptions(buffer).remainder = <<255>> THEN ZERO_LENGTH_PAYLOAD
    ELSE IF Len(buffer) >= 2 /\ CodeField(buffer)[1] \notin FallbackClasses
    THEN UNRECOGNIZED_CODE_CLASS
    ELSE ""

\* from_packed raised MessageFormatError with the diagnostic of the first
\* defect of the buffer, if it has one
FirstDefectReported ==
    FirstDefect(packed) # "" =>
        /\ result.kind = "raise" /\ result.exc = "MessageFormatError"
        /\ result.diag = FirstDefect(packed)

\* C22 as stated: from_packed of a buffer of version 1 with defects raises
\* MessageFormatError with the diagnostic of the first of them in the order
\* TOKEN_TOO_LONG, EMPTY_MESSAGE_NOT_EMPTY, INVALID_OPTION,
\* ZERO_LENGTH_PAYLOAD, UNRECOGNIZED_CODE_CLASS.
C22_DecodeOrder ==
    (FromPackedDone /\ Len(packed) >= 1 /\ VersionField(packed) = 1) => FirstDefectReported

\* the same for the buffers that hold the four header octets and whose
\* options decode or raise OptionDecodeError
DecodeOrderWhereReported ==
    (/\ FromPackedDone /\ Len(packed) >= 4 /\ VersionField(packed) = 1
     /\ (WireOptions(packed).ok \/ CaughtByFromPacked(WireOptions(packed).exc))) =>
        FirstDefectReported

\* the buffer holds the token its TKL declares, and every extension and
\* value octet the headers of its options declare
DeclaredOctetsPresent(buffer) ==
    /\ Len(buffer) >= 4 + TKLField(buffer)
    /\ ReadBlock(Drop(buffer, 4 + TKLField(buffer)), 0, << >>).kind # "truncated"

\* C27 as stated: a message from_packed returns has a token of exactly TKL
\* octets and options whose extension and value octets were all in the
\* buffer; a buffer that ends before the token, an extension or a value it
\* declares is never decoded into a message.
C27_DeclaredLengths ==
    (FromPackedDone /\ result.kind = "ok") =>
        /\ Len(reply.token) = TKLField(packed)
        /\ DeclaredOctetsPresent(packed)

\* the same for the token alone
TokenAsDeclared ==
    (FromPackedDone /\ result.kind = "ok") => Len(reply.token) = TKLField(packed)

\* the same for the options of a buffer that holds its token
OptionsAsDeclared ==
    (FromPackedDone /\ result.kind = "ok" /\ Len(packed) >= 4 + TKLField(packed)) =>
        DeclaredOctetsPresent(packed)

\* C29: when decode_options returns, what it leaves is empty or starts with
\* 0xFF, so from_packed raises INVALID_OPTION only when decode_options raised
\* OptionDecodeError and never from its own test of the octet where the
\* marker is expected.
C29_RemainderStartsWithMarker ==
    (FromPackedDone /\ Len(packed) >= 4 /\ VersionField(packed) = 1
     /\ TKLField(packed) <= 8) =>
        /\ WireOptions(packed).ok =>
              \/ WireOptions(packed).remainder = << >>
              \/ WireOptions(packed).remainder[1] = 255
        /\ (result.kind = "raise" /\ result.diag = INVALID_OPTION) =>
              (~WireOptions(packed).ok /\ WireOptions(packed).exc = "OptionDecodeError")

\* a GET with a header octet F0 where an option would start was refused
\* because the option decoder raised
C29_Witness ==
    /\ FromPackedDone
    /\ packed = <<64, 1, 1, 2, 240>>
    /\ ~WireOptions(packed).ok
    /\ result.kind = "raise" /\ result.diag = INVALID_OPTION

-----------------------------------------------------------------------------
(* Properties of the order of validate's tests: checked under SpecValidate *)

\* the class message.py registers for the code is not a class of the message
InstanceConflictExpected(m) ==
    /\ ExactlyRegistered(m.code) \/ m.code[1] \in FallbackClasses
    /\ ~isinstance(m, IF ExactlyRegistered(m.code) THEN ExactConstructor(m.code)
                      ELSE ClassFallback(m.code[1]))

\* a Request holds Proxy-Uri together with a Uri-Host, Uri-Port, Uri-Path or
\* Uri-Query
ProxyConflictExpected(m) ==
    /\ isinstance(m, "Request")
    /\ HasOptionNumbered(m.options, 35)
    /\ \E n \in {3, 7, 11, 15} : HasOptionNumbered(m.options, n)

\* an option with an odd number is unrecognized, or is not allowed in the
\* role of the Request or Response that holds it
CriticalExpected(m) ==
    \E i \in DOMAIN m.options :
        /\ m.options[i].number % 2 = 1
        /\ \/ m.options[i].unrecognized
           \/ isinstance(m, "Request") /\ ~valid_in_request(m.options[i])
           \/ isinstance(m, "Response") /\ ~valid_in_response(m.options[i])

\* the diagnostic of the earliest rule the message violates, "" when it
\* violates none
EarliestViolation(m) ==
    IF m.code = None THEN CODE_UNDEFINED
    ELSE IF m.code = Empty /\ ~IsBare(m) THEN EMPTY_MESSAGE_NOT_EMPTY
    ELSE IF m.code # Empty /\ TypeConflictExpected(m) THEN CODE_TYPE_CONFLICT
    ELSE IF m.code # Empty /\ InstanceConflictExpected(m) THEN CODE_INSTANCE_CONFLICT
    ELSE IF ProxyConflictExpected(m) THEN PROXY_URI_CONFLICT
    ELSE IF CriticalExpected(m) THEN UNRECOGNIZED_CRITICAL_OPTION
    ELSE ""

\* the number of rules the message violates
ViolationCount(m) ==
    Cardinality({ r \in 1..6 :
        \/ r = 1 /\ m.code = None
        \/ r = 2 /\ m.code = Empty /\ ~IsBare(m)
        \/ r = 3 /\ m.code \notin {None, Empty} /\ TypeConflictExpected(m)
        \/ r = 4 /\ m.code \notin {None, Empty} /\ InstanceConflictExpected(m)
        \/ r = 5 /\ ProxyConflictExpected(m)
        \/ r = 6 /\ CriticalExpected(m) })

\* C21: every validate step raises MessageValidationError with the
\* diagnostic of the earliest rule the message violates, in the order
\* CODE_UNDEFINED, EMPTY_MESSAGE_NOT_EMPTY, CODE_TYPE_CONFLICT,
\* CODE_INSTANCE_CONFLICT, PROXY_URI_CONFLICT, UNRECOGNIZED_CRITICAL_OPTION,
\* and returns exactly when the message violates none.
C21_ValidateOrder ==
    [][ValidateDone' =>
         IF EarliestViolation(msg) = "" THEN result'.kind = "ok"
         ELSE /\ result'.kind = "raise" /\ result'.exc = "MessageValidationError"
              /\ result'.diag = EarliestViolation(msg)]_vars

\* a reset Response with the code GET, which violates at least three rules,
\* was refused for the first of them
C21_Witness ==
    /\ ValidateDone
    /\ msg.cls = "Response" /\ msg.type = Type_RST /\ msg.code = <<0, 1>>
    /\ ViolationCount(msg) >= 3
    /\ result.diag = CODE_TYPE_CONFLICT

\* C26: the class-3 subtype is a Response subtype: a message of that subtype
\* with a class-3 code and of type CON, NON or ACK does not fail validate with
\* CODE_TYPE_CONFLICT.
C26_Class3IsResponse ==
    (ValidateDone /\ msg.cls = "Class3Response" /\ msg.code = <<3, 0>>
     /\ msg.type \in {Type_CON, Type_NON, Type_ACK}) =>
        ~(result.kind = "raise" /\ result.diag = CODE_TYPE_CONFLICT)

-----------------------------------------------------------------------------
(* Properties of construction and assignment: checked under Spec *)

\* C6 as stated: after construction and assignments no message has code
\* Empty together with a token, options or a payload.
C6_EmptyInvariantAsStated == (msg.code = Empty) => IsBare(msg)

\* C6: construction and assignment check no field against another; it is
\* validate that enforces the rule: in every validate step on a message with
\* code Empty, validate raises EMPTY_MESSAGE_NOT_EMPTY exactly when the token
\* is not empty, there are options, or there is a payload, for every type.
C6_EmptyCheckedByValidate ==
    [][(ValidateDone' /\ msg.code = Empty) =>
          ((/\ result'.kind = "raise"
            /\ result'.exc = "MessageValidationError"
            /\ result'.diag = EMPTY_MESSAGE_NOT_EMPTY) <=> ~IsBare(msg))]_vars

\* an Empty-coded message with only a payload was constructed, and refused by
\* validate
C6_Witness ==
    /\ ValidateDone
    /\ msg.code = Empty /\ msg.token = << >> /\ msg.options = << >> /\ msg.payload # None
    /\ result.diag = EMPTY_MESSAGE_NOT_EMPTY

=============================================================================
